---------------------------- MODULE Spec2Model ----------------------------
(***************************************************************************)
(* Observable collections of microui: the BaseObservable handler set, the  *)
(* JoinedMap, the MappedList and the FilteredList, each as a state machine *)
(* whose actions are whole synchronous calls (a source operation runs      *)
(* every handler it notifies to completion before it returns).             *)
(***************************************************************************)
EXTENDS Integers, Sequences, FiniteSets, TLC

(***************************************************************************)
(* Bounds of the model and shared values                                   *)
(***************************************************************************)
\* cap of the hook counters of the BaseObservable test Collection
MaxCalls == 3

\* handler identities used with subscribe/unsubscribe; NULL is the null handler
Handlers == {"h1", "h2"}
\* the handler that observes the JoinedMap
JmObservers == {"h1"}
NULL == "null"

\* the result of a call as far as the hooks are concerned
NoHooks == <<>>

VARIABLES
    \* BaseObservable (class Collection of the tests)
    handlers,               \* this._handlers
    firstSubscribeCalls,    \* Collection.firstSubscribeCalls
    firstUnsubscribeCalls,  \* Collection.firstUnsubscribeCalls
    upTransitions,          \* history: times the handler count left 0
    downTransitions,        \* history: times the handler count came back to 0
    removed,                \* history: handlers subscribed before and removed since
    resubscribed,           \* history: handlers subscribed again while subscribed
    delivered,              \* per handler: calls it got from the last emit
    subLast                 \* history: the last call, its argument and the hooks it ran

subVars == <<handlers, firstSubscribeCalls, firstUnsubscribeCalls,
             upTransitions, downTransitions, removed, resubscribed, delivered,
             subLast>>

VARIABLES
    sources,         \* JoinedMap._sources: the entries of every source map
    srcAdapters,     \* per source: SourceSubscriptionHandlers registered in its handler set
    jmHandlers,      \* JoinedMap._handlers
    jmSubscriptions, \* JoinedMap._subscriptions: null, or per source whether the
                     \* adapter still holds its _subscription closure
    jmEvents,        \* events the JoinedMap emitted to its handlers during the last call
    jmLast,          \* history: the last call on the JoinedMap, or on a source while
                     \* the JoinedMap had a subscriber
    replica,         \* history: the map an observer builds from the emitted events
    replicaOk        \* history: no add for a live key, no remove/update for a dead one

jmVars == <<sources, srcAdapters, jmHandlers, jmSubscriptions, jmEvents, jmLast,
            replica, replicaOk>>

VARIABLES
    mlSource,       \* the source list's items
    mlOnSource,     \* the MappedList is in the source's handler set
    mlHasUpdater,   \* an updater was given to the constructor
    mlMapped,       \* MappedList._mappedValues (null until the first subscription)
    mlHandlers,     \* MappedList._handlers
    mlEvents,       \* events the MappedList emitted during the last call
    mlOrigin        \* history, kept while the MappedList listens to its source: per
                    \* position, the element its mapped value was made from and the
                    \* element of the last update of that position

mlVars == <<mlSource, mlOnSource, mlHasUpdater, mlMapped, mlHandlers, mlEvents,
            mlOrigin>>

VARIABLES
    flSource,       \* the source list's items
    flOnSource,     \* the FilteredList is in the source's handler set
    flFilter,       \* FilteredList._filter: NoFilter or the name of a predicate
    flIncluded,     \* FilteredList._included
    flSubscription, \* FilteredList._subscription is not null
    flHandlers,     \* FilteredList._handlers
    flEvents,       \* events the FilteredList emitted during the last call
    flLast,         \* history: the last call
    flReplica,      \* history: the list an observer builds from the emitted events
    flReplicaOk     \* history: every index of those events was valid in that list

flVars == <<flSource, flOnSource, flFilter, flIncluded, flSubscription, flHandlers,
            flEvents, flLast, flReplica, flReplicaOk>>

VARIABLES
    siArray,        \* sortedIndex: the array argument
    siValue,        \* sortedIndex: the value argument
    siResult,       \* sortedIndex: what the call returned
    siCmp,          \* sortedIndex: the comparator argument
    siPc,           \* sortedIndex: "loop" while the call is in its while loop
    siLow,          \* sortedIndex: low  (0 outside a call)
    siHigh          \* sortedIndex: high (0 outside a call)

siVars == <<siArray, siValue, siResult, siCmp, siPc, siLow, siHigh>>

VARIABLES
    fuArray,        \* findAndUpdateInArray: the array argument
    fuPredicate,    \* findAndUpdateInArray: the predicate argument
    fuUpdater,      \* findAndUpdateInArray: the updater argument
    fuResult        \* findAndUpdateInArray: the value returned, the calls of the
                    \* updater and the emitUpdate calls on the observable

fuVars == <<fuArray, fuPredicate, fuUpdater, fuResult>>

VARIABLES
    mmMapper,       \* MappedMap._mapper / _updater: the kind of mapped value
    mmSource,       \* MappedMap._source: the entries of the source map
    mmOnSource,     \* the MappedMap is in the source's handler set
    mmSubscription, \* MappedMap._subscription is not null
    mmMapped,       \* MappedMap._mappedValues: the entries of the Map
    mmClosures,     \* keys whose mapped value was handed an emitSpontaneousUpdate
    mmHandlers,     \* MappedMap._handlers
    mmEvents,       \* the emitAdd/emitRemove/emitUpdate/emitReset calls the MappedMap
                    \* made during the last call
    mmLast          \* history: the last call

mmVars == <<mmMapper, mmSource, mmOnSource, mmSubscription, mmMapped, mmClosures, mmHandlers,
            mmEvents, mmLast>>

VARIABLES
    amApply,        \* ApplyMap._apply is set (hasApply())
    amTrace,        \* the _apply calls and the emit calls of the last call, in order
    amHandlers,     \* ApplyMap._handlers, of the ApplyMap built over the JoinedMap
    amSubscription, \* ApplyMap._subscription is not null
    amEvents        \* the emitAdd/emitRemove/emitUpdate/emitReset calls the ApplyMap
                    \* made during the last call

amVars == <<amApply, amTrace, amHandlers, amSubscription, amEvents>>

VARIABLES
    uvHasOn,        \* BaseUpdateView._value has an on method
    uvHasOff,       \* BaseUpdateView._value has an off method
    uvBound,        \* BaseUpdateView._boundUpdateFromValue: 0 for null, else the
                    \* number of the bound function
    uvBinds,        \* bound functions made so far by _updateFromValue.bind(this)
    uvOnValue,      \* the "change" handlers registered on the value
    uvLast          \* history: the last call

uvVars == <<uvHasOn, uvHasOff, uvBound, uvBinds, uvOnValue, uvLast>>

\* the components after the FilteredList
restVars == <<siVars, fuVars, mmVars, amVars, uvVars>>

vars == <<subVars, jmVars, mlVars, flVars, restVars>>

(***************************************************************************)
(* BaseObservable.subscribe / unsubscribe / unsubscribeAll as functions of *)
(* the handler set: the new set and whether the lifecycle hook is invoked. *)
(***************************************************************************)
\* mutant: subscribing a handler that is subscribed takes it out of the set
BaseSubscribe_Toggle(hs, h) ==
    LET after == IF h \in hs THEN hs \ {h} ELSE hs \cup {h}
    IN  [handlers |-> after, hook |-> Cardinality(after) = 1]

\* mutant: unsubscribe(null) clears the handler set
BaseUnsubscribe_NullClears(hs, h) ==
    IF h # NULL
    THEN [handlers |-> hs \ {h}, hook |-> Cardinality(hs \ {h}) = 0]
    ELSE [handlers |-> {}, hook |-> TRUE]

\* subscribe(handler): Set.add, then onSubscribeFirst iff size === 1
BaseSubscribe(hs, h) ==
    LET after == hs \cup {h}
    IN  [handlers |-> after, hook |-> Cardinality(after) = 1]

\* unsubscribe(handler): nothing for a null handler; otherwise Set.delete,
\* then onUnsubscribeLast iff size === 0
BaseUnsubscribe(hs, h) ==
    IF h # NULL
    THEN LET after == hs \ {h}
         IN  [handlers |-> after, hook |-> Cardinality(after) = 0]
    ELSE [handlers |-> hs, hook |-> FALSE]

\* unsubscribeAll(): only when size !== 0: clear, then onUnsubscribeLast
BaseUnsubscribeAll(hs) ==
    IF Cardinality(hs) # 0
    THEN [handlers |-> {}, hook |-> TRUE]
    ELSE [handlers |-> hs, hook |-> FALSE]

\* hasSubscriptions
HasSubscriptions(hs) == Cardinality(hs) # 0

\* emitAdd / emitRemove / emitUpdate / emitReset of the collection classes:
\* for (const h of this._handlers) h.on...(), one call per member of the Set
BaseEmit(hs) == [h \in Handlers |-> IF h \in hs THEN 1 ELSE 0]

NoCalls == [h \in Handlers |-> 0]

Bump(n, b) == IF b THEN n + 1 ELSE n

SubInit ==
    /\ handlers = {}
    /\ firstSubscribeCalls = 0
    /\ firstUnsubscribeCalls = 0
    /\ upTransitions = 0
    /\ downTransitions = 0
    /\ removed = {}
    /\ resubscribed = {}
    /\ delivered = NoCalls
    /\ subLast = [op |-> "new", h |-> NULL, before |-> {}, wasRemoved |-> FALSE,
                  wasTwice |-> FALSE, hooks |-> NoHooks]

SubRoom ==
    /\ firstSubscribeCalls < MaxCalls
    /\ firstUnsubscribeCalls < MaxCalls

\* c.subscribe(h), also for a handler that is already subscribed
Subscribe(h) ==
    /\ SubRoom
    /\ LET r == BaseSubscribe(handlers, h)
       IN  /\ handlers' = r.handlers
           /\ firstSubscribeCalls' = Bump(firstSubscribeCalls, r.hook)
           /\ upTransitions' = Bump(upTransitions, handlers = {} /\ r.handlers # {})
           /\ removed' = removed \ {h}
           /\ resubscribed' = IF h \in handlers THEN resubscribed \cup {h}
                               ELSE resubscribed
           /\ subLast' = [op |-> "subscribe", h |-> h, before |-> handlers,
                          wasRemoved |-> h \in removed,
                          wasTwice |-> h \in resubscribed,
                          hooks |-> IF r.hook THEN <<"onSubscribeFirst">> ELSE NoHooks]
    /\ delivered' = NoCalls
    /\ UNCHANGED <<firstUnsubscribeCalls, downTransitions>>
    /\ UNCHANGED <<jmVars, mlVars, flVars, restVars>>

\* c.unsubscribe(h) or the closure subscribe returned, also for a handler that
\* is not subscribed and for null
Unsubscribe(h) ==
    /\ SubRoom
    /\ LET r == BaseUnsubscribe(handlers, h)
       IN  /\ handlers' = r.handlers
           /\ firstUnsubscribeCalls' = Bump(firstUnsubscribeCalls, r.hook)
           /\ downTransitions' = Bump(downTransitions, handlers # {} /\ r.handlers = {})
           /\ removed' = IF h \in handlers THEN removed \cup {h} ELSE removed
           /\ resubscribed' = resubscribed \ {h}
           /\ subLast' = [op |-> "unsubscribe", h |-> h, before |-> handlers,
                          wasRemoved |-> h \in removed,
                          wasTwice |-> h \in resubscribed,
                          hooks |-> IF r.hook THEN <<"onUnsubscribeLast">> ELSE NoHooks]
    /\ delivered' = NoCalls
    /\ UNCHANGED <<firstSubscribeCalls, upTransitions>>
    /\ UNCHANGED <<jmVars, mlVars, flVars, restVars>>

\* c.unsubscribeAll()
UnsubscribeAll ==
    /\ SubRoom
    /\ LET r == BaseUnsubscribeAll(handlers)
       IN  /\ handlers' = r.handlers
           /\ firstUnsubscribeCalls' = Bump(firstUnsubscribeCalls, r.hook)
           /\ downTransitions' = Bump(downTransitions, handlers # {} /\ r.handlers = {})
           /\ removed' = removed \cup handlers
           /\ resubscribed' = {}
           /\ subLast' = [op |-> "unsubscribeAll", h |-> NULL, before |-> handlers,
                          wasRemoved |-> FALSE, wasTwice |-> FALSE,
                          hooks |-> IF r.hook THEN <<"onUnsubscribeLast">> ELSE NoHooks]
    /\ delivered' = NoCalls
    /\ UNCHANGED <<firstSubscribeCalls, upTransitions>>
    /\ UNCHANGED <<jmVars, mlVars, flVars, restVars>>

\* the collection emits one event to its handlers
Emit ==
    /\ delivered' = BaseEmit(handlers)
    /\ subLast' = [op |-> "emit", h |-> NULL, before |-> handlers,
                   wasRemoved |-> FALSE, wasTwice |-> FALSE, hooks |-> NoHooks]
    /\ UNCHANGED <<handlers, firstSubscribeCalls, firstUnsubscribeCalls,
                   upTransitions, downTransitions, removed, resubscribed>>
    /\ UNCHANGED <<jmVars, mlVars, flVars, restVars>>

(***************************************************************************)
(* JoinedMap over NumSources ObservableMaps.  A source map is the sequence *)
(* of its entries in insertion order (a JS Map); keys are unique in it.    *)
(* Source positions are 1-based here, 0-based in the code.                 *)
(***************************************************************************)
NumSources == 3
\* most entries the sources hold together
MaxEntries == 3

Keys == {"a", "b"}
\* stored values; 0 is a falsy value of the host language
Values == {0, 1}
\* what Map.get returns for a missing key
Undefined == -1
Params == {"p"}
NoParams == "none"
NoKey == "none"


SrcIdx == 1..NumSources

Ev(type, key, value, params) ==
    [type |-> type, key |-> key, value |-> value, params |-> params]

\* ObservableMap: has / get / size over the entries
SrcHas(m, k) == \E i \in 1..Len(m) : m[i].key = k
SrcGet(m, k) ==
    IF SrcHas(m, k) THEN (CHOOSE e \in {m[i] : i \in 1..Len(m)} : e.key = k).value
    ELSE Undefined
SrcSize(m) == Len(m)

\* ObservableMap.add: Map.set of a new key appends the entry
SrcAdd(m, k, v) == Append(m, [key |-> k, value |-> v])
\* ObservableMap.remove: Map.delete
SrcRemove(m, k) == SelectSeq(m, LAMBDA e : e.key # k)
\* ObservableMap.update / set of a present key: the entry keeps its place
SrcUpdate(m, k, v) ==
    [i \in 1..Len(m) |-> IF m[i].key = k THEN [key |-> k, value |-> v] ELSE m[i]]

\* the host language's truthiness of a looked-up value
Truthy(v) == v # Undefined /\ v # 0

\* mutant: the occlusion test takes a falsy value of an earlier source for absent
IsKeyAtSourceOccluded_Truthy(srcs, index, key) ==
    \E i \in 1..(index - 1) : Truthy(SrcGet(srcs[i], key))

\* JoinedMap._isKeyAtSourceOccluded(source, key): an earlier source holds the key
IsKeyAtSourceOccluded(srcs, index, key) ==
    \E i \in 1..(index - 1) : SrcGet(srcs[i], key) # Undefined

\* JoinedMap._getValueFromOccludedSources(source, key): the loop over the later
\* sources, from position i on
RECURSIVE OccludedScan(_, _, _)
OccludedScan(srcs, i, key) ==
    IF i > Len(srcs) THEN Undefined
    ELSE IF SrcGet(srcs[i], key) # Undefined THEN SrcGet(srcs[i], key)
    ELSE OccludedScan(srcs, i + 1, key)

\* mutant: the scan of the later sources starts one source too late
GetValueFromOccludedSources_SkipNext(srcs, index, key) ==
    OccludedScan(srcs, index + 2, key)

GetValueFromOccludedSources(srcs, index, key) == OccludedScan(srcs, index + 1, key)

\* mutant: the add is emitted before the remove of the value it occludes
JoinedOnAdd_AddFirst(srcs, index, key, value) ==
    IF ~IsKeyAtSourceOccluded(srcs, index, key)
    THEN LET occludingValue == GetValueFromOccludedSources(srcs, index, key)
         IN  <<Ev("add", key, value, NoParams)>>
             \o (IF occludingValue # Undefined
                 THEN <<Ev("remove", key, occludingValue, NoParams)>>
                 ELSE <<>>)
    ELSE <<>>

\* JoinedMap.onAdd(source, key, value): the events it emits
JoinedOnAdd(srcs, index, key, value) ==
    IF ~IsKeyAtSourceOccluded(srcs, index, key)
    THEN LET occludingValue == GetValueFromOccludedSources(srcs, index, key)
         IN  (IF occludingValue # Undefined
              THEN <<Ev("remove", key, occludingValue, NoParams)>>
              ELSE <<>>)
             \o <<Ev("add", key, value, NoParams)>>
    ELSE <<>>

\* mutant: the value the removal uncovers is not added back
JoinedOnRemove_NoUncover(srcs, index, key, value) ==
    IF ~IsKeyAtSourceOccluded(srcs, index, key)
    THEN <<Ev("remove", key, value, NoParams)>>
    ELSE <<>>

\* JoinedMap.onRemove(source, key, value)
JoinedOnRemove(srcs, index, key, value) ==
    IF ~IsKeyAtSourceOccluded(srcs, index, key)
    THEN LET occludedValue == GetValueFromOccludedSources(srcs, index, key)
         IN  <<Ev("remove", key, value, NoParams)>>
             \o (IF occludedValue # Undefined
                 THEN <<Ev("add", key, occludedValue, NoParams)>>
                 ELSE <<>>)
    ELSE <<>>

\* JoinedMap.onUpdate(source, key, value, params); subsNull is !this._subscriptions
JoinedOnUpdate(subsNull, srcs, index, key, value, params) ==
    IF subsNull THEN <<>>
    ELSE IF ~IsKeyAtSourceOccluded(srcs, index, key)
    THEN <<Ev("update", key, value, params)>>
    ELSE <<>>

\* JoinedMap.onReset(source)
JoinedOnReset(srcs, index) == <<Ev("reset", NoKey, Undefined, NoParams)>>

\* JoinedMap.get(key): the first source whose value for the key is truthy
RECURSIVE JoinedGetScan(_, _, _)
JoinedGetScan(srcs, i, key) ==
    IF i > Len(srcs) THEN Undefined
    ELSE IF Truthy(SrcGet(srcs[i], key)) THEN SrcGet(srcs[i], key)
    ELSE JoinedGetScan(srcs, i + 1, key)

JoinedGet(srcs, key) == JoinedGetScan(srcs, 1, key)

\* mutant: size counts the keys, each once
JoinedSize_Unique(srcs) ==
    Cardinality({k \in Keys : \E i \in 1..Len(srcs) : SrcHas(srcs[i], k)})

\* JoinedMap.size: the sum of the sources' sizes
RECURSIVE JoinedSizeFrom(_, _)
JoinedSizeFrom(srcs, i) ==
    IF i > Len(srcs) THEN 0 ELSE SrcSize(srcs[i]) + JoinedSizeFrom(srcs, i + 1)
JoinedSize(srcs) == JoinedSizeFrom(srcs, 1)

(***************************************************************************)
(* JoinedIterator: _sourceIndex (0 before the first source), whether a     *)
(* _currentIterator is open and how many entries it has handed out, and    *)
(* _encounteredKeys.                                                       *)
(***************************************************************************)
JoinedIteratorNew ==
    [sourceIndex |-> 0, open |-> FALSE, pos |-> 0, encounteredKeys |-> {}]

\* mutant: next() does not look at _encounteredKeys
RECURSIVE JoinedIteratorNext_NoSkip(_, _)
JoinedIteratorNext_NoSkip(srcs, it) ==
    IF ~it.open
    THEN LET idx == it.sourceIndex + 1
         IN  IF Len(srcs) < idx
             THEN [done |-> TRUE, value |-> [key |-> NoKey, value |-> Undefined],
                   it |-> [it EXCEPT !.sourceIndex = idx]]
             ELSE JoinedIteratorNext_NoSkip(srcs,
                      [it EXCEPT !.sourceIndex = idx, !.open = TRUE, !.pos = 0])
    ELSE IF it.pos >= Len(srcs[it.sourceIndex])
         THEN JoinedIteratorNext_NoSkip(srcs, [it EXCEPT !.open = FALSE])
         ELSE [done |-> FALSE, value |-> srcs[it.sourceIndex][it.pos + 1],
               it |-> [it EXCEPT !.pos = it.pos + 1]]

\* JoinedIterator.next(): one pass of its while loop per unfolding
RECURSIVE JoinedIteratorNext(_, _)
JoinedIteratorNext(srcs, it) ==
    IF ~it.open
    THEN LET idx == it.sourceIndex + 1
         IN  IF Len(srcs) < idx
             THEN [done |-> TRUE, value |-> [key |-> NoKey, value |-> Undefined],
                   it |-> [it EXCEPT !.sourceIndex = idx]]
             ELSE JoinedIteratorNext(srcs,
                      [it EXCEPT !.sourceIndex = idx, !.open = TRUE, !.pos = 0])
    ELSE IF it.pos >= Len(srcs[it.sourceIndex])
         THEN JoinedIteratorNext(srcs, [it EXCEPT !.open = FALSE])
         ELSE LET entry == srcs[it.sourceIndex][it.pos + 1]
                  moved == [it EXCEPT !.pos = it.pos + 1]
              IN  IF entry.key \notin it.encounteredKeys
                  THEN [done |-> FALSE, value |-> entry,
                        it |-> [moved EXCEPT !.encounteredKeys = @ \cup {entry.key}]]
                  ELSE JoinedIteratorNext(srcs, moved)

\* for (const entry of joinedMap): next() until it reports done
RECURSIVE JoinedDrain(_, _, _)
JoinedDrain(srcs, it, out) ==
    LET r == JoinedIteratorNext(srcs, it)
    IN  IF r.done THEN out ELSE JoinedDrain(srcs, r.it, Append(out, r.value))

\* JoinedMap[Symbol.iterator]() run to the end
JoinedIterate(srcs) == JoinedDrain(srcs, JoinedIteratorNew, <<>>)

\* the iteration read as a map
IterMap(srcs) ==
    LET es == JoinedIterate(srcs)
    IN  [k \in Keys |->
            IF \E i \in 1..Len(es) : es[i].key = k
            THEN es[CHOOSE i \in 1..Len(es) : es[i].key = k].value
            ELSE Undefined]

(***************************************************************************)
(* JoinedMap lifecycle                                                     *)
(***************************************************************************)
SubsNull == [null |-> TRUE, held |-> <<>>]

\* JoinedMap.onSubscribeFirst: one new SourceSubscriptionHandler per source,
\* subscribed to it
JoinedOnSubscribeFirst(adapters) ==
    [subscriptions |-> [null |-> FALSE, held |-> [i \in SrcIdx |-> TRUE]],
     adapters |-> [i \in SrcIdx |-> adapters[i] + 1]]

\* mutant: the teardown leaves the adapters subscribed to their sources
JoinedOnUnsubscribeLast_NoDispose(subs, adapters) ==
    [subscriptions |-> subs, adapters |-> adapters]

\* JoinedMap.onUnsubscribeLast: dispose() of every adapter, which unsubscribes
\* it from its source and drops its closure
JoinedOnUnsubscribeLast(subs, adapters) ==
    [subscriptions |-> [null |-> FALSE, held |-> [i \in SrcIdx |-> FALSE]],
     adapters |-> [i \in SrcIdx |-> IF subs.held[i] THEN adapters[i] - 1
                                     ELSE adapters[i]]]

RECURSIVE Repeat(_, _)
Repeat(seq, n) == IF n <= 0 THEN <<>> ELSE seq \o Repeat(seq, n - 1)

\* BaseObservableMap.emitAdd/.. : every handler of the JoinedMap gets the event
Delivered(hs, evs) == IF hs = {} THEN <<>> ELSE evs

\* an observer applying the events it gets to its copy; it re-reads on reset
RECURSIVE ApplyEvents(_, _, _)
ApplyEvents(st, evs, srcs) ==
    IF evs = <<>> THEN st
    ELSE LET e == Head(evs)
             live == st.map[e.key] # Undefined
             nxt ==
               CASE e.type = "add" ->
                      [map |-> [st.map EXCEPT ![e.key] = e.value],
                       ok |-> st.ok /\ ~live]
                 [] e.type = "remove" ->
                      [map |-> [st.map EXCEPT ![e.key] = Undefined],
                       ok |-> st.ok /\ live]
                 [] e.type = "update" ->
                      [map |-> [st.map EXCEPT ![e.key] = e.value],
                       ok |-> st.ok /\ live]
                 [] OTHER -> [map |-> IterMap(srcs), ok |-> st.ok]
         IN  ApplyEvents(nxt, Tail(evs), srcs)

(***************************************************************************)
(* ApplyMap over the JoinedMap: it is the handler TheApplyMap of the       *)
(* JoinedMap while it has subscribers of its own.                          *)
(***************************************************************************)
TheApplyMap == "applyMap"

\* a call of the _apply callback: apply(key, value) or apply(key, value, params)
ApplyCall(key, value, params) == Ev("apply", key, value, params)

\* ApplyMap.applyOnce(apply): one call per entry of the source's iteration
RECURSIVE ApplyOnceLoop(_, _)
ApplyOnceLoop(es, i) ==
    IF i > Len(es) THEN <<>>
    ELSE <<ApplyCall(es[i].key, es[i].value, NoParams)>> \o ApplyOnceLoop(es, i + 1)

\* mutant: applyOnce stops after the first entry
ApplyOnce_First(srcs) ==
    LET es == JoinedIterate(srcs)
    IN  IF es = <<>> THEN <<>>
        ELSE <<ApplyCall(es[1].key, es[1].value, NoParams)>>

ApplyOnce(srcs) == ApplyOnceLoop(JoinedIterate(srcs), 1)

\* mutant: the handlers emit first and call _apply afterwards
ApplyMapOn_EmitFirst(apply, e, srcs) ==
    CASE e.type = "add" ->
           <<Ev("add", e.key, e.value, NoParams)>>
           \o (IF apply THEN <<ApplyCall(e.key, e.value, NoParams)>> ELSE <<>>)
      [] e.type = "remove" -> <<Ev("remove", e.key, e.value, NoParams)>>
      [] e.type = "update" ->
           <<Ev("update", e.key, e.value, e.params)>>
           \o (IF apply THEN <<ApplyCall(e.key, e.value, e.params)>> ELSE <<>>)
      [] OTHER -> <<Ev("reset", NoKey, Undefined, NoParams)>>
                  \o (IF apply THEN ApplyOnce(srcs) ELSE <<>>)

\* ApplyMap.onAdd / onRemove / onUpdate / onReset for the event e of the source,
\* with _apply set or not: the _apply calls and the emit call, in order; srcs
\* are the root sources at the time of the event
ApplyMapOn(apply, e, srcs) ==
    CASE e.type = "add" ->
           (IF apply THEN <<ApplyCall(e.key, e.value, NoParams)>> ELSE <<>>)
           \o <<Ev("add", e.key, e.value, NoParams)>>
      [] e.type = "remove" -> <<Ev("remove", e.key, e.value, NoParams)>>
      [] e.type = "update" ->
           (IF apply THEN <<ApplyCall(e.key, e.value, e.params)>> ELSE <<>>)
           \o <<Ev("update", e.key, e.value, e.params)>>
      [] OTHER -> (IF apply THEN ApplyOnce(srcs) ELSE <<>>)
                  \o <<Ev("reset", NoKey, Undefined, NoParams)>>

\* the handlers run for the events evs, in order
RECURSIVE ApplyMapOnAll(_, _, _)
ApplyMapOnAll(apply, evs, srcs) ==
    IF evs = <<>> THEN <<>>
    ELSE ApplyMapOn(apply, Head(evs), srcs) \o ApplyMapOnAll(apply, Tail(evs), srcs)

\* the emit calls of a trace
Emits(trace) == SelectSeq(trace, LAMBDA e : e.type # "apply")

\* new ApplyMap(joined, apply)
AmBuilt(apply) ==
    /\ amApply = apply
    /\ amTrace = <<>>
    /\ amHandlers = {}
    /\ amSubscription = FALSE
    /\ amEvents = <<>>

AmInit == AmBuilt(FALSE)

\* the JoinedMap emitted evs, the root sources being srcs; the ApplyMap, if it is
\* one of its handlers, ran its handlers on them
AmAfterSourceCall(evs, srcs) ==
    /\ amTrace' = IF TheApplyMap \in jmHandlers
                  THEN ApplyMapOnAll(amApply, evs, srcs) ELSE <<>>
    /\ amEvents' = Emits(amTrace')
    /\ UNCHANGED <<amApply, amHandlers, amSubscription>>

JmInit ==
    /\ sources = [i \in SrcIdx |-> <<>>]
    /\ srcAdapters = [i \in SrcIdx |-> 0]
    /\ jmHandlers = {}
    /\ jmSubscriptions = SubsNull
    /\ jmEvents = <<>>
    /\ jmLast = [op |-> "new", src |-> 0, key |-> NoKey, value |-> Undefined,
                 params |-> NoParams]
    /\ replica = [k \in Keys |-> Undefined]
    /\ replicaOk = TRUE

\* the source call done, its handlers run: what the JoinedMap's handlers got
JmAfterSourceCall(op, i, k, v, p, srcs, handlerEvents) ==
    LET evs == Delivered(jmHandlers, Repeat(handlerEvents, srcAdapters[i]))
        st == ApplyEvents([map |-> replica, ok |-> replicaOk], evs, srcs)
    IN  /\ sources' = srcs
        /\ jmEvents' = evs
        /\ jmLast' = IF jmHandlers = {}
                     THEN [op |-> "unobserved", src |-> 0, key |-> NoKey,
                           value |-> Undefined, params |-> NoParams]
                     ELSE [op |-> op, src |-> i, key |-> k, value |-> v, params |-> p]
        /\ replica' = st.map
        /\ replicaOk' = st.ok
        /\ UNCHANGED <<srcAdapters, jmHandlers, jmSubscriptions>>
        /\ AmAfterSourceCall(evs, srcs)
        /\ UNCHANGED <<subVars, mlVars, flVars, siVars, fuVars, mmVars, uvVars>>

\* sources[i].add(k, v) for a key the source does not hold
SourceAdd(i, k, v) ==
    /\ ~SrcHas(sources[i], k)
    /\ JoinedSize(sources) < MaxEntries
    /\ LET srcs == [sources EXCEPT ![i] = SrcAdd(@, k, v)]
       IN  JmAfterSourceCall("add", i, k, v, NoParams, srcs,
                             JoinedOnAdd(srcs, i, k, v))

\* sources[i].remove(k) for a key it holds
SourceRemove(i, k) ==
    /\ SrcHas(sources[i], k)
    /\ LET srcs == [sources EXCEPT ![i] = SrcRemove(@, k)]
           v == SrcGet(sources[i], k)
       IN  JmAfterSourceCall("remove", i, k, v, NoParams, srcs,
                             JoinedOnRemove(srcs, i, k, v))

\* sources[i].update(k, params) / set(k, v): the key's value stays or is replaced
SourceUpdate(i, k, v, p) ==
    /\ SrcHas(sources[i], k)
    /\ LET srcs == [sources EXCEPT ![i] = SrcUpdate(@, k, v)]
       IN  JmAfterSourceCall("update", i, k, v, p, srcs,
                             JoinedOnUpdate(jmSubscriptions.null, srcs, i, k, v, p))

\* sources[i].reset(): the source is cleared
SourceReset(i) ==
    /\ sources[i] # <<>>
    /\ LET srcs == [sources EXCEPT ![i] = <<>>]
       IN  JmAfterSourceCall("reset", i, NoKey, Undefined, NoParams, srcs,
                             JoinedOnReset(srcs, i))

\* joined.subscribe(h) by an observer that is not subscribed; it reads the map
JoinedSubscribe(h) ==
    /\ h \notin jmHandlers
    /\ LET r == BaseSubscribe(jmHandlers, h)
           f == JoinedOnSubscribeFirst(srcAdapters)
       IN  /\ jmHandlers' = r.handlers
           /\ jmSubscriptions' = IF r.hook THEN f.subscriptions ELSE jmSubscriptions
           /\ srcAdapters' = IF r.hook THEN f.adapters ELSE srcAdapters
    /\ jmEvents' = <<>>
    /\ jmLast' = [op |-> "subscribe", src |-> 0, key |-> NoKey, value |-> Undefined,
                  params |-> NoParams]
    /\ replica' = IterMap(sources)
    /\ replicaOk' = TRUE
    /\ UNCHANGED sources

JmSubscribe(h) ==
    /\ JoinedSubscribe(h)
    /\ UNCHANGED <<subVars, mlVars, flVars, restVars>>

\* the closure subscribe returned, called once by a subscribed observer
JoinedUnsubscribe(h) ==
    /\ h \in jmHandlers
    /\ LET r == BaseUnsubscribe(jmHandlers, h)
           l == JoinedOnUnsubscribeLast(jmSubscriptions, srcAdapters)
       IN  /\ jmHandlers' = r.handlers
           /\ jmSubscriptions' = IF r.hook THEN l.subscriptions ELSE jmSubscriptions
           /\ srcAdapters' = IF r.hook THEN l.adapters ELSE srcAdapters
    /\ jmEvents' = <<>>
    /\ jmLast' = [op |-> "unsubscribe", src |-> 0, key |-> NoKey, value |-> Undefined,
                  params |-> NoParams]
    /\ UNCHANGED <<sources, replica, replicaOk>>

JmUnsubscribe(h) ==
    /\ JoinedUnsubscribe(h)
    /\ UNCHANGED <<subVars, mlVars, flVars, restVars>>

(***************************************************************************)
(* The chain: subscribers of the ApplyMap, the ApplyMap on the JoinedMap,  *)
(* the JoinedMap's adapters on the root sources.                           *)
(***************************************************************************)
\* applyMap.subscribe(h) by a handler that is not subscribed; onSubscribeFirst
\* subscribes the ApplyMap to the JoinedMap and runs applyOnce if _apply is set
AmSubscribe(h) ==
    /\ h \notin amHandlers
    /\ LET r == BaseSubscribe(amHandlers, h)
       IN  /\ amHandlers' = r.handlers
           /\ amSubscription' = (amSubscription \/ r.hook)
           /\ IF r.hook THEN JoinedSubscribe(TheApplyMap) ELSE UNCHANGED jmVars
           /\ amTrace' = IF r.hook /\ amApply THEN ApplyOnce(sources) ELSE <<>>
    /\ amEvents' = <<>>
    /\ UNCHANGED amApply
    /\ UNCHANGED <<subVars, mlVars, flVars, siVars, fuVars, mmVars, uvVars>>

\* the closure subscribe returned, called once by a subscribed handler;
\* onUnsubscribeLast calls _subscription, which unsubscribes the ApplyMap from
\* the JoinedMap, and drops it
AmUnsubscribe(h) ==
    /\ h \in amHandlers
    /\ LET r == BaseUnsubscribe(amHandlers, h)
       IN  /\ amHandlers' = r.handlers
           /\ amSubscription' = (amSubscription /\ ~r.hook)
           /\ IF r.hook THEN JoinedUnsubscribe(TheApplyMap) ELSE UNCHANGED jmVars
    /\ amEvents' = <<>>
    /\ amTrace' = <<>>
    /\ UNCHANGED amApply
    /\ UNCHANGED <<subVars, mlVars, flVars, siVars, fuVars, mmVars, uvVars>>

\* applyMap.applyOnce(apply) called from outside with a callback; _apply stays
AmApplyOnce ==
    /\ amTrace' = ApplyOnce(sources)
    /\ amEvents' = <<>>
    /\ jmEvents' = <<>>
    /\ jmLast' = [op |-> "applyOnce", src |-> 0, key |-> NoKey, value |-> Undefined,
                  params |-> NoParams]
    /\ UNCHANGED <<amApply, amHandlers, amSubscription>>
    /\ UNCHANGED <<sources, srcAdapters, jmHandlers, jmSubscriptions, replica,
                   replicaOk>>
    /\ UNCHANGED <<subVars, mlVars, flVars, siVars, fuVars, mmVars, uvVars>>

\* applyMap.setApply(apply) with a callback (apply) or null: store it, and call
\* it once per entry if it is a callback; no source emits anything
AmSetApply(apply) ==
    /\ amApply' = apply
    /\ amTrace' = IF apply THEN ApplyOnce(sources) ELSE <<>>
    /\ amEvents' = <<>>
    /\ jmEvents' = <<>>
    /\ jmLast' = [op |-> "setApply", src |-> 0, key |-> NoKey, value |-> Undefined,
                  params |-> NoParams]
    /\ UNCHANGED <<amHandlers, amSubscription>>
    /\ UNCHANGED <<sources, srcAdapters, jmHandlers, jmSubscriptions, replica,
                   replicaOk>>
    /\ UNCHANGED <<subVars, mlVars, flVars, siVars, fuVars, mmVars, uvVars>>

(***************************************************************************)
(* Lists.  Indices are 0-based as in the code; a list is a sequence, so    *)
(* element idx of the code is seq[idx + 1].                                *)
(***************************************************************************)
\* longest source list
MaxLen == 3

\* longest _included array a FilteredList is let grow to (it can outgrow its source)
MaxMask == 4

\* elements of the source lists
Elems == {1, 2}

Min(a, b) == IF a < b THEN a ELSE b

\* Array.prototype.splice(idx, 0, x)
InsertAt(seq, idx, x) ==
    LET at == Min(idx, Len(seq))
    IN  SubSeq(seq, 1, at) \o <<x>> \o SubSeq(seq, at + 1, Len(seq))

\* Array.prototype.splice(idx, 1)
RemoveAt(seq, idx) ==
    IF idx >= Len(seq) THEN seq
    ELSE SubSeq(seq, 1, idx) \o SubSeq(seq, idx + 2, Len(seq))

\* array[idx] = x
SetAt(seq, idx, x) ==
    IF idx < Len(seq) THEN [seq EXCEPT ![idx + 1] = x] ELSE Append(seq, x)

\* ObservableArray.move(from, to): take the element out, put it back at to
MoveIn(seq, from, to) == InsertAt(RemoveAt(seq, from), to, seq[from + 1])

\* a list event as its handler receives it
LEv(type, idx, to, value, params) ==
    [type |-> type, idx |-> idx, to |-> to, value |-> value, params |-> params]

\* placeholders of the fields an event or a call does not have
NoIdx == Undefined
NoElem == Undefined

\* the lists of Elems of at most n elements
ListsUpTo(n) == UNION {[1..k -> Elems] : k \in 0..n}

(***************************************************************************)
(* MappedList over an ObservableArray.  The mapper and the updater are the *)
(* ones of test_update: n => {n: n*n} and (o, p, n) => o.m = n*n.          *)
(***************************************************************************)

\* the m field of a mapped value the updater has not set
NoM == Undefined
NullArr == [null |-> TRUE, arr |-> <<>>]
Arr(a) == [null |-> FALSE, arr |-> a]

\* this._mapper
Mapper(v) == [n |-> v * v, m |-> NoM]
\* this._updater(mappedValue, params, value)
Updater(mv, params, v) == [mv EXCEPT !.m = v * v]

\* mutant: the first subscription starts from an empty cache and maps nothing
MappedOnSubscribeFirst_Empty(src) == [null |-> FALSE, arr |-> <<>>]

\* MappedList.onSubscribeFirst: _mappedValues = [], then one push per source item
RECURSIVE MapAll(_, _, _)
MapAll(src, i, acc) ==
    IF i > Len(src) THEN acc ELSE MapAll(src, i + 1, Append(acc, Mapper(src[i])))

MappedOnSubscribeFirst(src) == Arr(MapAll(src, 1, <<>>))

\* MappedList.onAdd + runAdd: the cache and the event
MappedOnAdd(mapped, index, value) ==
    LET mappedValue == Mapper(value)
    IN  [mapped |-> Arr(InsertAt(mapped.arr, index, mappedValue)),
         out |-> <<LEv("add", index, NoIdx, mappedValue, NoParams)>>]

\* MappedList.onUpdate + runUpdate
MappedOnUpdate(mapped, hasUpdater, index, value, params) ==
    IF mapped.null THEN [mapped |-> mapped, out |-> <<>>]
    ELSE LET old == mapped.arr[index + 1]
             mappedValue == IF hasUpdater THEN Updater(old, params, value) ELSE old
         IN  [mapped |-> Arr(SetAt(mapped.arr, index, mappedValue)),
              out |-> <<LEv("update", index, NoIdx, mappedValue, params)>>]

\* MappedList.onRemove + runRemove
MappedOnRemove(mapped, index) ==
    [mapped |-> Arr(RemoveAt(mapped.arr, index)),
     out |-> <<LEv("remove", index, NoIdx, mapped.arr[index + 1], NoParams)>>]

\* MappedList.onMove + runMove
MappedOnMove(mapped, fromIdx, toIdx) ==
    [mapped |-> Arr(MoveIn(mapped.arr, fromIdx, toIdx)),
     out |-> <<LEv("move", fromIdx, toIdx, mapped.arr[fromIdx + 1], NoParams)>>]

\* BaseMappedList.length and [Symbol.iterator]
MappedLength(mapped) == Len(mapped.arr)
MappedIterate(mapped) == mapped.arr

MlInit ==
    /\ mlSource = <<>>
    /\ mlOnSource = FALSE
    /\ mlHasUpdater \in BOOLEAN
    /\ mlMapped = NullArr
    /\ mlHandlers = {}
    /\ mlEvents = <<>>
    /\ mlOrigin = <<>>

\* the source changed to src; the MappedList, if it is a handler of the source,
\* ran the handler whose result is r
MlAfterSourceCall(src, origin, r) ==
    /\ mlSource' = src
    /\ mlOrigin' = IF mlOnSource THEN origin ELSE mlOrigin
    /\ mlMapped' = IF mlOnSource THEN r.mapped ELSE mlMapped
    /\ mlEvents' = IF mlOnSource /\ mlHandlers # {} THEN r.out ELSE <<>>
    /\ UNCHANGED <<mlOnSource, mlHasUpdater, mlHandlers>>
    /\ UNCHANGED <<subVars, jmVars, flVars, restVars>>

\* source.insert(idx, v)
MlSourceAdd(idx, v) ==
    /\ Len(mlSource) < MaxLen
    /\ idx \in 0..Len(mlSource)
    /\ MlAfterSourceCall(InsertAt(mlSource, idx, v),
                         InsertAt(mlOrigin, idx, [from |-> v, upd |-> NoElem]),
                         MappedOnAdd(mlMapped, idx, v))

\* source.remove(idx)
MlSourceRemove(idx) ==
    /\ idx \in 0..(Len(mlSource) - 1)
    /\ MlAfterSourceCall(RemoveAt(mlSource, idx), RemoveAt(mlOrigin, idx),
                         MappedOnRemove(mlMapped, idx))

\* source.update(idx, v, p): the item at idx is replaced by v (possibly itself)
MlSourceUpdate(idx, v, p) ==
    /\ idx \in 0..(Len(mlSource) - 1)
    /\ MlAfterSourceCall(SetAt(mlSource, idx, v),
                         [mlOrigin EXCEPT ![idx + 1].upd = v],
                         MappedOnUpdate(mlMapped, mlHasUpdater, idx, v, p))

\* source.move(from, to)
MlSourceMove(from, to) ==
    /\ from \in 0..(Len(mlSource) - 1)
    /\ to \in 0..(Len(mlSource) - 1)
    /\ from # to
    /\ MlAfterSourceCall(MoveIn(mlSource, from, to), MoveIn(mlOrigin, from, to),
                         MappedOnMove(mlMapped, from, to))

\* mapped.subscribe(h) by a handler that is not subscribed
MlSubscribe(h) ==
    /\ h \notin mlHandlers
    /\ LET r == BaseSubscribe(mlHandlers, h)
       IN  /\ mlHandlers' = r.handlers
           /\ mlOnSource' = (mlOnSource \/ r.hook)
           /\ mlMapped' = IF r.hook THEN MappedOnSubscribeFirst(mlSource) ELSE mlMapped
           /\ mlOrigin' = IF r.hook
                          THEN [i \in 1..Len(mlSource) |->
                                   [from |-> mlSource[i], upd |-> NoElem]]
                          ELSE mlOrigin
    /\ mlEvents' = <<>>
    /\ UNCHANGED <<mlSource, mlHasUpdater>>
    /\ UNCHANGED <<subVars, jmVars, flVars, restVars>>

\* the closure subscribe returned, called once; onUnsubscribeLast calls
\* _sourceUnsubscribe and keeps _mappedValues
MlUnsubscribe(h) ==
    /\ h \in mlHandlers
    /\ LET r == BaseUnsubscribe(mlHandlers, h)
       IN  /\ mlHandlers' = r.handlers
           /\ mlOnSource' = (mlOnSource /\ ~r.hook)
           /\ mlOrigin' = IF r.hook THEN <<>> ELSE mlOrigin
    /\ mlEvents' = <<>>
    /\ UNCHANGED <<mlSource, mlHasUpdater, mlMapped>>
    /\ UNCHANGED <<subVars, jmVars, flVars, restVars>>

(***************************************************************************)
(* FilteredList over an ObservableArray.  _included is null or a boolean   *)
(* array; reading it past its end gives undefined, which is falsy.         *)
(***************************************************************************)

NoFilter == "none"
\* predicates (value, index) => boolean: one on the value, one on the index
Filters == {"isOne", "evenIndex"}

Filter(f, value, idx) ==
    IF f = "isOne" THEN value = 1 ELSE idx % 2 = 0

\* this._included[idx], undefined read as false
IncAt(arr, idx) == IF idx >= 0 /\ idx < Len(arr) THEN arr[idx + 1] ELSE FALSE

\* FilteredList._emitForUpdate(wasIncluded, isIncluded, idx, value, params)
EmitForUpdate(wasIncluded, isIncluded, idx, value, params) ==
    IF wasIncluded /\ ~isIncluded THEN <<LEv("remove", idx, NoIdx, value, NoParams)>>
    ELSE IF ~wasIncluded /\ isIncluded THEN <<LEv("add", idx, NoIdx, value, NoParams)>>
    ELSE IF wasIncluded /\ isIncluded THEN <<LEv("update", idx, NoIdx, value, params)>>
    ELSE <<>>

\* the loop of _reapplyFilter with a filter: i is the source index, t the
\* translated index; old is the array before the call (null: all were included),
\* which is the very array being written when it was not null
RECURSIVE ReapplyLoop(_, _, _, _, _, _, _, _)
ReapplyLoop(f, oldNull, arr, src, i, t, out, silent) ==
    IF i >= Len(src) THEN [inc |-> Arr(arr), out |-> out]
    ELSE LET value == src[i + 1]
             isIncluded == Filter(f, value, i)
             wasIncluded == IF oldNull THEN TRUE ELSE IncAt(arr, i)
             ev == IF silent THEN <<>>
                   ELSE EmitForUpdate(wasIncluded, isIncluded, t, value, NoParams)
         IN  ReapplyLoop(f, oldNull, SetAt(arr, i, isIncluded), src, i + 1,
                         IF isIncluded THEN t + 1 ELSE t, out \o ev, silent)

\* the loop of _reapplyFilter without a filter: add for every excluded element
RECURSIVE UnfilterLoop(_, _, _, _, _)
UnfilterLoop(arr, src, i, out, silent) ==
    IF i >= Len(src) THEN out
    ELSE UnfilterLoop(arr, src, i + 1,
                      IF ~IncAt(arr, i) /\ ~silent
                      THEN out \o <<LEv("add", i, NoIdx, src[i + 1], NoParams)>>
                      ELSE out,
                      silent)

\* mutant: _reapplyFilter takes every element as included before
ReapplyFilter_ForgetOld(f, inc, src, silent) ==
    IF f # NoFilter
    THEN ReapplyLoop(f, TRUE,
                     IF inc.null THEN [i \in 1..Len(src) |-> FALSE] ELSE inc.arr,
                     src, 0, 0, <<>>, silent)
    ELSE IF inc.null THEN [inc |-> inc, out |-> <<>>]
    ELSE [inc |-> NullArr, out |-> UnfilterLoop(inc.arr, src, 0, <<>>, silent)]

\* FilteredList._reapplyFilter(silent)
ReapplyFilter(f, inc, src, silent) ==
    IF f # NoFilter
    THEN ReapplyLoop(f, inc.null,
                     IF inc.null THEN [i \in 1..Len(src) |-> FALSE] ELSE inc.arr,
                     src, 0, 0, <<>>, silent)
    ELSE IF inc.null THEN [inc |-> inc, out |-> <<>>]
    ELSE [inc |-> NullArr, out |-> UnfilterLoop(inc.arr, src, 0, <<>>, silent)]

\* FilteredList._translateIndex(idx)
RECURSIVE TranslateLoop(_, _, _, _)
TranslateLoop(arr, idx, i, t) ==
    IF i >= idx THEN t
    ELSE TranslateLoop(arr, idx, i + 1, IF IncAt(arr, i) THEN t + 1 ELSE t)

TranslateIndex(inc, idx) == IF inc.null THEN idx ELSE TranslateLoop(inc.arr, idx, 0, 0)

\* this._included?.splice(...)
IncSplice(inc, arr) == IF inc.null THEN inc ELSE Arr(arr)

\* FilteredList.onAdd(idx, value); src is the source after the insertion
FilteredOnAdd(f, inc, src, idx, value) ==
    LET included == Filter(f, value, idx)
        inc1 == IF f # NoFilter THEN IncSplice(inc, InsertAt(inc.arr, idx, included))
                ELSE inc
    IN  IF f # NoFilter /\ ~included THEN [inc |-> inc1, out |-> <<>>]
        ELSE LET ev == <<LEv("add", TranslateIndex(inc1, idx), NoIdx, value, NoParams)>>
                 r == ReapplyFilter(f, inc1, src, FALSE)
             IN  [inc |-> r.inc, out |-> ev \o r.out]

\* FilteredList.onRemove(idx, value); src is the source after the removal.
\* With a filter and no mask the read of this._included![idx] throws: the
\* handler does nothing
FilteredOnRemove(f, inc, src, idx, value) ==
    IF f # NoFilter /\ inc.null THEN [inc |-> inc, out |-> <<>>] ELSE
    LET wasIncluded == (f = NoFilter) \/ IncAt(inc.arr, idx)
        translatedIndex == TranslateIndex(inc, idx)
        inc1 == IncSplice(inc, RemoveAt(inc.arr, idx))
        ev == IF wasIncluded
              THEN <<LEv("remove", translatedIndex, NoIdx, value, NoParams)>>
              ELSE <<>>
        r == ReapplyFilter(f, inc1, src, FALSE)
    IN  [inc |-> r.inc, out |-> ev \o r.out]

\* mutant: onUpdate does not store the new inclusion in the mask
FilteredOnUpdate_KeepBit(f, inc, src, idx, value, params) ==
    IF inc.null THEN [inc |-> inc, out |-> <<LEv("update", idx, NoIdx, value, params)>>]
    ELSE [inc |-> inc,
          out |-> EmitForUpdate(IncAt(inc.arr, idx), Filter(f, value, idx),
                                TranslateIndex(inc, idx), value, params)]

\* FilteredList.onUpdate(idx, value, params)
FilteredOnUpdate(f, inc, src, idx, value, params) ==
    IF inc.null THEN [inc |-> inc, out |-> <<LEv("update", idx, NoIdx, value, params)>>]
    ELSE LET wasIncluded == IncAt(inc.arr, idx)
             isIncluded == Filter(f, value, idx)
             inc1 == Arr(SetAt(inc.arr, idx, isIncluded))
         IN  [inc |-> inc1,
              out |-> EmitForUpdate(wasIncluded, isIncluded,
                                    TranslateIndex(inc1, idx), value, params)]

\* FilteredList.onReset()
FilteredOnReset(f, inc, src) ==
    LET r == ReapplyFilter(f, inc, src, FALSE)
    IN  [inc |-> r.inc,
         out |-> r.out \o <<LEv("reset", NoIdx, NoIdx, NoElem, NoParams)>>]

\* FilteredList.onMove(from, to, value); src is the source after the move
FilteredOnMove(f, inc, src, from, to, value) ==
    IF inc.null
    THEN [inc |-> inc, out |-> <<LEv("move", from, to, value, NoParams)>>]
    ELSE LET tfrom == TranslateIndex(inc, from)
             tto == TranslateIndex(inc, to)
             wasIncluded == IncAt(inc.arr, from)
             isIncluded == Filter(f, value, to)
             inc1 == Arr(InsertAt(RemoveAt(inc.arr, from), to, isIncluded))
             ev == IF wasIncluded /\ isIncluded
                   THEN <<LEv("move", tfrom, tto, value, NoParams)>>
                   ELSE IF wasIncluded /\ ~isIncluded
                   THEN <<LEv("remove", tfrom, NoIdx, value, NoParams)>>
                   ELSE IF ~wasIncluded /\ isIncluded
                   THEN <<LEv("add", tto, NoIdx, value, NoParams)>>
                   ELSE <<>>
             r == ReapplyFilter(f, inc1, src, FALSE)
         IN  [inc |-> r.inc, out |-> ev \o r.out]

\* what a call that dereferences null throws, as a length and as an iteration
TypeError == Undefined
IterError == <<Undefined>>

\* FilteredList.length: the number of true entries of _included
FilteredLength(inc) ==
    IF inc.null THEN TypeError
    ELSE Cardinality({i \in 1..Len(inc.arr) : inc.arr[i]})

\* FilterIterator.next() until done: the source items whose _included[idx] is true
RECURSIVE FilterIterLoop(_, _, _, _)
FilterIterLoop(src, inc, idx, out) ==
    IF idx >= Len(src) THEN out
    ELSE IF inc.null THEN IterError
    ELSE FilterIterLoop(src, inc, idx + 1,
                        IF IncAt(inc.arr, idx) THEN Append(out, src[idx + 1]) ELSE out)

FilteredIterate(src, inc) == FilterIterLoop(src, inc, 0, <<>>)

\* an observer of a list applies one event to its copy st.list: add inserts at
\* idx (valid up to the length), remove and update need an element at idx, move
\* takes the element at idx out and puts it back at to; an index outside the
\* copy, or an add to a copy that is already as long as the longest source,
\* fails the observer (st.ok), which then keeps its copy as it is
ApplyListEvent(st, e) ==
    LET n == Len(st.list)
        bad == [st EXCEPT !.ok = FALSE]
    IN  IF ~st.ok THEN st
        ELSE IF e.type = "add"
        THEN IF e.idx \in 0..n /\ n < MaxLen
             THEN [st EXCEPT !.list = InsertAt(st.list, e.idx, e.value)] ELSE bad
        ELSE IF e.type = "remove"
        THEN IF e.idx \in 0..(n - 1)
             THEN [st EXCEPT !.list = RemoveAt(st.list, e.idx)] ELSE bad
        ELSE IF e.type = "update"
        THEN IF e.idx \in 0..(n - 1)
             THEN [st EXCEPT !.list = SetAt(st.list, e.idx, e.value)] ELSE bad
        ELSE IF e.type = "move"
        THEN IF e.idx \in 0..(n - 1) /\ e.to \in 0..(n - 1)
             THEN [st EXCEPT !.list = InsertAt(RemoveAt(st.list, e.idx), e.to, e.value)]
             ELSE bad
        ELSE st

RECURSIVE ApplyListEvents(_, _)
ApplyListEvents(st, evs) ==
    IF evs = <<>> THEN st
    ELSE ApplyListEvents(ApplyListEvent(st, Head(evs)), Tail(evs))

\* what an observer reads when it takes its copy: the iteration of the list, or
\* the source itself while the list has no mask and passes everything through
FlView(src, inc) == IF inc.null THEN src ELSE FilteredIterate(src, inc)

\* the observer's copy after the events evs of one call; after a reset event it
\* takes its copy again
FlObserve(evs, src, inc) ==
    IF evs # <<>> /\ evs[Len(evs)].type = "reset"
    THEN [list |-> FlView(src, inc), ok |-> TRUE]
    ELSE ApplyListEvents([list |-> flReplica, ok |-> flReplicaOk], evs)

\* new FilteredList(source, filter)
FlInit ==
    /\ flSource = <<>>
    /\ flOnSource = FALSE
    /\ flFilter \in Filters \cup {NoFilter}
    /\ flIncluded = NullArr
    /\ flSubscription = FALSE
    /\ flHandlers = {}
    /\ flEvents = <<>>
    /\ flLast = [op |-> "new", idx |-> NoIdx, to |-> NoIdx, value |-> NoElem,
                 params |-> NoParams]
    /\ flReplica = <<>>
    /\ flReplicaOk = TRUE

\* the last call ended in an uncaught TypeError; the run ends there
FlThrew == flLast.op \in {"subscribeReentrant", "unsubscribeAgain"} /\ flLast.threw

\* the source changed to src; the FilteredList, if it is a handler of the source,
\* ran the handler whose result is r
FlAfterSourceCall(op, idx, to, v, p, src, r) ==
    /\ ~FlThrew
    /\ flSource' = src
    /\ flIncluded' = IF flOnSource THEN r.inc ELSE flIncluded
    /\ flEvents' = IF flOnSource /\ flHandlers # {} THEN r.out ELSE <<>>
    /\ flLast' = [op |-> op, idx |-> idx, to |-> to, value |-> v, params |-> p,
                  mask |-> flIncluded]
    /\ LET o == FlObserve(flEvents', src, flIncluded')
       IN  flReplica' = o.list /\ flReplicaOk' = o.ok
    /\ UNCHANGED <<flOnSource, flFilter, flSubscription, flHandlers>>
    /\ UNCHANGED <<subVars, jmVars, mlVars, restVars>>

\* source.insert(idx, v)
FlSourceAdd(idx, v) ==
    /\ Len(flSource) < MaxLen
    /\ Len(flIncluded.arr) < MaxMask
    /\ idx \in 0..Len(flSource)
    /\ LET src == InsertAt(flSource, idx, v)
       IN  FlAfterSourceCall("add", idx, NoIdx, v, NoParams, src,
                             FilteredOnAdd(flFilter, flIncluded, src, idx, v))

\* source.remove(idx)
FlSourceRemove(idx) ==
    /\ idx \in 0..(Len(flSource) - 1)
    /\ LET src == RemoveAt(flSource, idx)
           v == flSource[idx + 1]
       IN  FlAfterSourceCall("remove", idx, NoIdx, v, NoParams, src,
                             FilteredOnRemove(flFilter, flIncluded, src, idx, v))

\* source.update(idx, v, p): the item at idx is replaced by v (possibly itself)
FlSourceUpdate(idx, v, p) ==
    /\ idx \in 0..(Len(flSource) - 1)
    /\ LET src == SetAt(flSource, idx, v)
       IN  FlAfterSourceCall("update", idx, NoIdx, v, p, src,
                             FilteredOnUpdate(flFilter, flIncluded, src, idx, v, p))

\* source.move(from, to)
FlSourceMove(from, to) ==
    /\ from \in 0..(Len(flSource) - 1)
    /\ to \in 0..(Len(flSource) - 1)
    /\ from # to
    /\ LET src == MoveIn(flSource, from, to)
           v == flSource[from + 1]
       IN  FlAfterSourceCall("move", from, to, v, NoParams, src,
                             FilteredOnMove(flFilter, flIncluded, src, from, to, v))

\* the source replaces its whole content by items and emits reset
FlSourceReset(items) ==
    /\ items # flSource
    /\ FlAfterSourceCall("reset", NoIdx, NoIdx, NoElem, NoParams, items,
                         FilteredOnReset(flFilter, flIncluded, items))

\* filtered.setFilter(f)
FlSetFilter(f) ==
    /\ ~FlThrew
    /\ LET r == IF flSubscription THEN ReapplyFilter(f, flIncluded, flSource, FALSE)
                ELSE [inc |-> flIncluded, out |-> <<>>]
       IN  /\ flFilter' = f
           /\ flIncluded' = r.inc
           /\ flEvents' = IF flHandlers # {} THEN r.out ELSE <<>>
    /\ flLast' = [op |-> "setFilter", idx |-> NoIdx, to |-> NoIdx, value |-> NoElem,
                  params |-> NoParams, same |-> (f = flFilter),
                  kept |-> (flIncluded' = flIncluded), mask |-> flIncluded,
                  sound |-> flReplicaOk]
    /\ LET o == FlObserve(flEvents', flSource, flIncluded')
       IN  flReplica' = o.list /\ flReplicaOk' = o.ok
    /\ UNCHANGED <<flSource, flOnSource, flSubscription, flHandlers>>
    /\ UNCHANGED <<subVars, jmVars, mlVars, restVars>>

\* FilteredList.onSubscribeFirst: subscribe to the source, _reapplyFilter(true)
FilteredOnSubscribeFirst(f, inc, src) == ReapplyFilter(f, inc, src, TRUE).inc

\* filtered.subscribe(h) by a handler that is not subscribed
FlSubscribe(h) ==
    /\ ~FlThrew
    /\ h \notin flHandlers
    /\ LET r == BaseSubscribe(flHandlers, h)
       IN  /\ flHandlers' = r.handlers
           /\ flOnSource' = (flOnSource \/ r.hook)
           /\ flSubscription' = (flSubscription \/ r.hook)
           /\ flIncluded' = IF r.hook
                            THEN FilteredOnSubscribeFirst(flFilter, flIncluded, flSource)
                            ELSE flIncluded
    /\ flEvents' = <<>>
    /\ flLast' = [op |-> "subscribe", idx |-> NoIdx, to |-> NoIdx, value |-> NoElem,
                  params |-> NoParams]
    /\ flReplica' = IF flHandlers = {} THEN FlView(flSource, flIncluded')
                    ELSE flReplica
    /\ flReplicaOk' = (flHandlers = {} \/ flReplicaOk)
    /\ UNCHANGED <<flSource, flFilter>>
    /\ UNCHANGED <<subVars, jmVars, mlVars, restVars>>

\* the closure subscribe returned, called once; onUnsubscribeLast drops
\* _included, calls _subscription (which takes the FilteredList out of the
\* source's handler set) and drops it
FlUnsubscribe(h) ==
    /\ ~FlThrew
    /\ h \in flHandlers
    /\ LET r == BaseUnsubscribe(flHandlers, h)
       IN  /\ flHandlers' = r.handlers
           /\ flOnSource' = (flOnSource /\ ~(r.hook /\ flSubscription))
           /\ flSubscription' = (flSubscription /\ ~r.hook)
           /\ flIncluded' = IF r.hook THEN NullArr ELSE flIncluded
    /\ flEvents' = <<>>
    /\ flLast' = [op |-> "unsubscribe", idx |-> NoIdx, to |-> NoIdx, value |-> NoElem,
                  params |-> NoParams, h |-> h]
    /\ flReplica' = IF flHandlers' = {} THEN <<>> ELSE flReplica
    /\ flReplicaOk' = (flHandlers' = {} \/ flReplicaOk)
    /\ UNCHANGED <<flSource, flFilter>>
    /\ UNCHANGED <<subVars, jmVars, mlVars, restVars>>

(***************************************************************************)
(* FilteredList with a source that emits an event from inside its          *)
(* subscribe(), and with an unsubscribe closure that is called again.      *)
(***************************************************************************)
\* the calls a source list can make: add, remove, update, move, reset
FlCalls ==
    [op : {"add"}, idx : 0..MaxLen, to : {NoIdx}, value : Elems,
     params : {NoParams}, items : {<<>>}]
    \cup [op : {"remove"}, idx : 0..MaxLen, to : {NoIdx}, value : {NoElem},
          params : {NoParams}, items : {<<>>}]
    \cup [op : {"update"}, idx : 0..MaxLen, to : {NoIdx}, value : Elems,
          params : Params, items : {<<>>}]
    \cup [op : {"move"}, idx : 0..MaxLen, to : 0..MaxLen, value : {NoElem},
          params : {NoParams}, items : {<<>>}]
    \cup [op : {"reset"}, idx : {NoIdx}, to : {NoIdx}, value : {NoElem},
          params : {NoParams}, items : ListsUpTo(MaxLen)]

\* the source can make the call c
FlSourceCan(c) ==
    CASE c.op = "add" -> /\ Len(flSource) < MaxLen
                         /\ Len(flIncluded.arr) < MaxMask
                         /\ c.idx \in 0..Len(flSource)
      [] c.op = "remove" -> c.idx \in 0..(Len(flSource) - 1)
      [] c.op = "update" -> c.idx \in 0..(Len(flSource) - 1)
      [] c.op = "move" -> /\ c.idx \in 0..(Len(flSource) - 1)
                          /\ c.to \in 0..(Len(flSource) - 1) /\ c.idx # c.to
      [] OTHER -> c.items # flSource

\* the source after the call c
FlSourceAfter(c) ==
    CASE c.op = "add" -> InsertAt(flSource, c.idx, c.value)
      [] c.op = "remove" -> RemoveAt(flSource, c.idx)
      [] c.op = "update" -> SetAt(flSource, c.idx, c.value)
      [] c.op = "move" -> MoveIn(flSource, c.idx, c.to)
      [] OTHER -> c.items

\* the FilteredList handler the source runs for the call c, on the mask inc
FlHandler(c, inc, src) ==
    CASE c.op = "add" -> FilteredOnAdd(flFilter, inc, src, c.idx, c.value)
      [] c.op = "remove" ->
             FilteredOnRemove(flFilter, inc, src, c.idx, flSource[c.idx + 1])
      [] c.op = "update" ->
             FilteredOnUpdate(flFilter, inc, src, c.idx, c.value, c.params)
      [] c.op = "move" ->
             FilteredOnMove(flFilter, inc, src, c.idx, c.to, flSource[c.idx + 1])
      [] OTHER -> FilteredOnReset(flFilter, inc, src)

\* onRemove reads this._included![idx]: a TypeError while _included is null and
\* a filter is set
FlHandlerThrows(op, inc) == op = "remove" /\ flFilter # NoFilter /\ inc.null

\* filtered.subscribe(h), the first subscription, during which the source makes
\* the call op from inside its subscribe(): h is in _handlers and the
\* FilteredList is in the source's handler set, _subscription is not assigned
\* yet and _reapplyFilter(true) has not run.  A handler that throws ends
\* onSubscribeFirst there.
FlSubscribeReentrant(h, c) ==
    /\ ~FlThrew
    /\ flHandlers = {}
    /\ FlSourceCan(c)
    /\ LET src == FlSourceAfter(c)
           threw == FlHandlerThrows(c.op, flIncluded)
           r == IF threw THEN [inc |-> flIncluded, out |-> <<>>]
                ELSE FlHandler(c, flIncluded, src)
       IN  /\ flSource' = src
           /\ flHandlers' = BaseSubscribe(flHandlers, h).handlers
           /\ flOnSource' = TRUE
           /\ flSubscription' = ~threw
           /\ flIncluded' = IF threw THEN r.inc
                            ELSE FilteredOnSubscribeFirst(flFilter, r.inc, src)
           /\ flEvents' = r.out
           /\ flLast' = [op |-> "subscribeReentrant", idx |-> c.idx, to |-> c.to,
                         value |-> c.value, params |-> c.params, during |-> c.op,
                         threw |-> threw]
           /\ flReplica' = FlView(src, flIncluded')
           /\ flReplicaOk' = TRUE
    /\ UNCHANGED flFilter
    /\ UNCHANGED <<subVars, jmVars, mlVars, restVars>>

\* the closure subscribe(h) returned, called again right after it removed h:
\* with no handler left onUnsubscribeLast runs again, drops _included and calls
\* this._subscription!(), a TypeError when it is null
FlUnsubscribeAgain(h) ==
    /\ ~FlThrew
    /\ flLast.op \in {"unsubscribe", "unsubscribeAgain"}
    /\ flLast.h = h
    /\ h \notin flHandlers
    /\ LET r == BaseUnsubscribe(flHandlers, h)
       IN  /\ flHandlers' = r.handlers
           /\ flIncluded' = IF r.hook THEN NullArr ELSE flIncluded
           /\ flOnSource' = (flOnSource /\ ~(r.hook /\ flSubscription))
           /\ flSubscription' = (flSubscription /\ ~r.hook)
           /\ flLast' = [op |-> "unsubscribeAgain", idx |-> NoIdx, to |-> NoIdx,
                         value |-> NoElem, params |-> NoParams, h |-> h,
                         threw |-> (r.hook /\ ~flSubscription),
                         kept |-> (/\ flHandlers' = flHandlers
                                   /\ flIncluded' = flIncluded
                                   /\ flOnSource' = flOnSource
                                   /\ flSubscription' = flSubscription)]
    /\ flEvents' = <<>>
    /\ UNCHANGED <<flSource, flFilter, flReplica, flReplicaOk>>
    /\ UNCHANGED <<subVars, jmVars, mlVars, restVars>>

(***************************************************************************)
(* sortedIndex(array, value, comparator), with the comparator (a, b) => a - b *)
(***************************************************************************)
\* longest array given to sortedIndex
SiMaxLen == 3
\* the numbers in those arrays
SiValues == 0..3

Comparator(left, right) == left - right

\* the arrays over SiValues of at most n elements that Comparator sorts
SortedArrays(n) ==
    {a \in UNION {[1..k -> SiValues] : k \in 0..n} :
        \A i \in 1..(Len(a) - 1) : Comparator(a[i], a[i + 1]) <= 0}

\* the while loop of sortedIndex; array[mid] is array[mid + 1] here
RECURSIVE SortedIndexLoop(_, _, _, _)
SortedIndexLoop(array, value, low, high) ==
    IF low < high
    THEN LET mid == (low + high) \div 2
             cmpResult == Comparator(value, array[mid + 1])
         IN  IF cmpResult > 0 THEN SortedIndexLoop(array, value, mid + 1, high)
             ELSE IF cmpResult < 0 THEN SortedIndexLoop(array, value, low, mid)
             ELSE SortedIndexLoop(array, value, mid, mid)
    ELSE high

SortedIndex(array, value) == SortedIndexLoop(array, value, 0, Len(array))

\* no call is running; the comparator is (a, b) => a - b
SiAtRest == siCmp = "ascending" /\ siPc = "done" /\ siLow = 0 /\ siHigh = 0

SiInit ==
    /\ siArray \in SortedArrays(SiMaxLen)
    /\ siValue \in SiValues
    /\ siResult = SortedIndex(siArray, siValue)
    /\ SiAtRest

\* the state of this component while another one is examined
SiIdle == siArray = <<>> /\ siValue = 0 /\ siResult = 0 /\ SiAtRest

\* sortedIndex(array, value, comparator)
SortedIndexCall(array, value) ==
    /\ siArray' = array
    /\ siValue' = value
    /\ siResult' = SortedIndex(array, value)
    /\ UNCHANGED <<siCmp, siPc, siLow, siHigh>>
    /\ UNCHANGED <<subVars, jmVars, mlVars, flVars, fuVars, mmVars, amVars, uvVars>>

(***************************************************************************)
(* sortedIndex one loop iteration at a time, for every array and for       *)
(* comparators that are orderings and comparators that are not.  What the  *)
(* loop looks at is whether cmpResult > 0 and whether cmpResult < 0; NaN   *)
(* is neither.                                                             *)
(***************************************************************************)
SiComparators == {"ascending", "descending", "zero", "positive", "negative", "nan"}
\* the comparators that order the values
SiOrderings == {"ascending", "descending", "zero"}

\* comparator(left, right) > 0 and comparator(left, right) < 0
Cmp(c, left, right) ==
    CASE c = "ascending" -> [gt |-> Comparator(left, right) > 0,
                             lt |-> Comparator(left, right) < 0]
      [] c = "descending" -> [gt |-> Comparator(right, left) > 0,
                              lt |-> Comparator(right, left) < 0]
      [] c = "positive" -> [gt |-> TRUE, lt |-> FALSE]
      [] c = "negative" -> [gt |-> FALSE, lt |-> TRUE]
      [] OTHER -> [gt |-> FALSE, lt |-> FALSE]

\* every array over SiValues of at most n elements
SiArrays(n) == UNION {[1..k -> SiValues] : k \in 0..n}

\* (low + high) >>> 1, the sum being below 2^32
Mid(low, high) == (low + high) \div 2

\* mutant: a value that sorts after array[mid] moves low to mid
SortedIndexBody_LowToMid(cmpResult, low, high) ==
    LET mid == Mid(low, high)
    IN  IF cmpResult.gt THEN [low |-> mid, high |-> high]
        ELSE IF cmpResult.lt THEN [low |-> low, high |-> mid]
        ELSE [low |-> mid, high |-> mid]

\* the body of the while loop after the comparator call: low and high afterwards
SortedIndexBody(cmpResult, low, high) ==
    LET mid == Mid(low, high)
    IN  IF cmpResult.gt THEN [low |-> mid + 1, high |-> high]
        ELSE IF cmpResult.lt THEN [low |-> low, high |-> mid]
        ELSE [low |-> mid, high |-> mid]

\* sortedIndex(array, value, comparator) has been called: low = 0,
\* high = array.length
SortedIndexEnter(array, value, c) ==
    /\ siArray = array
    /\ siValue = value
    /\ siCmp = c
    /\ siPc = "loop"
    /\ siLow = 0
    /\ siHigh = Len(array)
    /\ siResult = 0

\* the loop test and, if it passes, one iteration; else return high
SortedIndexStep ==
    /\ siPc = "loop"
    /\ IF siLow < siHigh
       THEN LET r == SortedIndexBody(
                         Cmp(siCmp, siValue, siArray[Mid(siLow, siHigh) + 1]),
                         siLow, siHigh)
            IN  /\ siLow' = r.low
                /\ siHigh' = r.high
                /\ UNCHANGED <<siPc, siResult>>
       ELSE /\ siResult' = siHigh
            /\ siPc' = "done"
            /\ siLow' = 0
            /\ siHigh' = 0
    /\ UNCHANGED <<siArray, siValue, siCmp>>
    /\ UNCHANGED <<subVars, jmVars, mlVars, flVars, fuVars, mmVars, amVars, uvVars>>

(***************************************************************************)
(* findAndUpdateInArray(predicate, array, observable, updater)             *)
(***************************************************************************)
\* longest array given to findAndUpdateInArray
FuMaxLen == 3
\* predicates (value) => boolean
Predicates == {"isTwo", "isOdd", "never"}
Predicate(q, v) ==
    IF q = "isTwo" THEN v = 2 ELSE IF q = "isOdd" THEN v % 2 = 1 ELSE FALSE

\* updaters (value) => params | false: bail is the result false; one updater
\* returns nothing (undefined), which is not false
Updaters == {"params", "bail", "bailOnOne", "void"}
RunUpdater(u, v) ==
    IF u = "bail" \/ (u = "bailOnOne" /\ v = 1) THEN [bail |-> TRUE, params |-> NoParams]
    ELSE IF u = "void" THEN [bail |-> FALSE, params |-> "undefined"]
    ELSE [bail |-> FALSE, params |-> "p"]

\* array.findIndex(predicate): the first index whose element passes, else -1
RECURSIVE FindIndex(_, _, _)
FindIndex(q, array, i) ==
    IF i >= Len(array) THEN -1
    ELSE IF Predicate(q, array[i + 1]) THEN i
    ELSE FindIndex(q, array, i + 1)

FindAndUpdateInArray_AlwaysEmit(q, array, u) ==
    LET index == FindIndex(q, array, 0)
    IN  IF index # -1
        THEN [found |-> TRUE,
              calls |-> <<array[index + 1]>>,
              events |-> <<LEv("update", index, NoIdx, array[index + 1],
                               RunUpdater(u, array[index + 1]).params)>>]
        ELSE [found |-> FALSE, calls |-> <<>>, events |-> <<>>]

\* findAndUpdateInArray: found is the value returned, calls the arguments the
\* updater was called with, events the emitUpdate calls on the observable
FindAndUpdateInArray(q, array, u) ==
    LET index == FindIndex(q, array, 0)
    IN  IF index # -1
        THEN LET value == array[index + 1]
                 r == RunUpdater(u, value)
             IN  [found |-> TRUE,
                  calls |-> <<value>>,
                  events |-> IF ~r.bail
                             THEN <<LEv("update", index, NoIdx, value, r.params)>>
                             ELSE <<>>]
        ELSE [found |-> FALSE, calls |-> <<>>, events |-> <<>>]

FuInit ==
    /\ fuArray \in ListsUpTo(FuMaxLen)
    /\ fuPredicate \in Predicates
    /\ fuUpdater \in Updaters
    /\ fuResult = FindAndUpdateInArray(fuPredicate, fuArray, fuUpdater)

\* the state of this component while another one is examined
FuIdle ==
    /\ fuArray = <<>> /\ fuPredicate = "never" /\ fuUpdater = "bail"
    /\ fuResult = FindAndUpdateInArray("never", <<>>, "bail")

\* findAndUpdateInArray(predicate, array, observable, updater)
FindAndUpdateCall(q, array, u) ==
    /\ fuArray' = array
    /\ fuPredicate' = q
    /\ fuUpdater' = u
    /\ fuResult' = FindAndUpdateInArray(q, array, u)
    /\ UNCHANGED <<subVars, jmVars, mlVars, flVars, siVars, mmVars, amVars, uvVars>>

(***************************************************************************)
(* MappedMap over an ObservableMap, with the mapper and the updater of the *)
(* MappedList tests.  The mapper either builds an object {n: v * v}, which *)
(* the updater mutates, or returns the number v * v, which no updater can  *)
(* change; a mapped value is the record of its fields, the number being n. *)
(* No mapper returns undefined.                                            *)
(***************************************************************************)
MapMappers == {"object", "number"}

\* mapper(value, emitSpontaneousUpdate)
MapMapper(mp, v) == Mapper(v)
\* updater?.(mappedValue, params, value): the cached value afterwards
MapUpdater(mp, mv, params, v) ==
    IF mp = "object" THEN Updater(mv, params, v) ELSE mv
\* if (value): an object is truthy, a number unless it is 0
MapTruthy(mp, mv) == mp = "object" \/ mv.n # 0

\* Map.set(k, v): a present key keeps its place, a new one is appended
MapSet(m, k, v) == IF SrcHas(m, k) THEN SrcUpdate(m, k, v) ELSE SrcAdd(m, k, v)
\* Map.get(k) of a key the map holds
MapGet(m, k) == (CHOOSE e \in {m[i] : i \in 1..Len(m)} : e.key = k).value

\* MappedMap._emitSpontaneousUpdate(key, params): Map.get, then if (value)
EmitSpontaneousUpdate(mp, mapped, key, params) ==
    IF SrcHas(mapped, key) /\ MapTruthy(mp, MapGet(mapped, key))
    THEN <<Ev("update", key, MapGet(mapped, key), params)>>
    ELSE <<>>

\* MappedMap.onAdd(key, value)
MappedMapOnAdd(mp, mapped, key, value) ==
    [mapped |-> MapSet(mapped, key, MapMapper(mp, value)),
     out |-> <<Ev("add", key, MapMapper(mp, value), NoParams)>>]

\* mutant: onRemove emits the remove and keeps the mapped value
MappedMapOnRemove_KeepCached(mapped, key) ==
    IF SrcHas(mapped, key)
    THEN [mapped |-> mapped,
          out |-> <<Ev("remove", key, MapGet(mapped, key), NoParams)>>]
    ELSE [mapped |-> mapped, out |-> <<>>]

\* MappedMap.onRemove(key)
MappedMapOnRemove(mapped, key) ==
    IF SrcHas(mapped, key)
    THEN [mapped |-> SrcRemove(mapped, key),
          out |-> <<Ev("remove", key, MapGet(mapped, key), NoParams)>>]
    ELSE [mapped |-> mapped, out |-> <<>>]

\* MappedMap.onUpdate(key, value, params); _mappedValues is never null, so the
\* guard at the top of the handler never returns; a cached value is never
\* undefined, so mappedValue !== undefined is the presence of the key
MappedMapOnUpdate(mp, mapped, key, value, params) ==
    IF SrcHas(mapped, key)
    THEN LET mv == MapUpdater(mp, MapGet(mapped, key), params, value)
         IN  [mapped |-> SrcUpdate(mapped, key, mv),
              out |-> <<Ev("update", key, mv, params)>>]
    ELSE [mapped |-> mapped, out |-> <<>>]

\* mutant: onReset emits the reset and keeps the mapped values
MappedMapOnReset_Keep(mapped) ==
    [mapped |-> mapped, out |-> <<Ev("reset", NoKey, Undefined, NoParams)>>]

\* MappedMap.onReset()
MappedMapOnReset(mapped) ==
    [mapped |-> <<>>, out |-> <<Ev("reset", NoKey, Undefined, NoParams)>>]

\* the loop of MappedMap.onSubscribeFirst over the source's entries
RECURSIVE MapAllEntries(_, _, _, _)
MapAllEntries(mp, source, i, mapped) ==
    IF i > Len(source) THEN mapped
    ELSE MapAllEntries(mp, source, i + 1,
                       MapSet(mapped, source[i].key, MapMapper(mp, source[i].value)))

\* MappedMap.onSubscribeFirst: subscribe to the source, map every entry into
\* _mappedValues as it is
MappedMapOnSubscribeFirst(mp, mapped, source) == MapAllEntries(mp, source, 1, mapped)

\* mutant: the teardown leaves the MappedMap in the source's handler set
MappedMapOnUnsubscribeLast_StayRegistered(mapped) ==
    [onSource |-> TRUE, subscription |-> FALSE, mapped |-> <<>>]

\* mutant: the teardown keeps the mapped values
MappedMapOnUnsubscribeLast_KeepValues(mapped) ==
    [onSource |-> FALSE, subscription |-> FALSE, mapped |-> mapped]

\* MappedMap.onUnsubscribeLast: call _subscription, drop it, clear _mappedValues
MappedMapOnUnsubscribeLast(mapped) ==
    [onSource |-> FALSE, subscription |-> FALSE, mapped |-> <<>>]

\* MappedMap[Symbol.iterator] / size
MappedMapIterate(mapped) == mapped
MappedMapSize(mapped) == Len(mapped)
\* MappedMap.get(key): the mapped value, or undefined (defined = FALSE)
MappedMapGet(mapped, key) ==
    IF SrcHas(mapped, key) THEN [defined |-> TRUE, value |-> MapGet(mapped, key)]
    ELSE [defined |-> FALSE]

MmRecord(op, k, v, p) == [op |-> op, key |-> k, value |-> v, params |-> p]

\* new MappedMap(source, mapper, updater)
MmBuilt(mp) ==
    /\ mmMapper = mp
    /\ mmSource = <<>>
    /\ mmOnSource = FALSE
    /\ mmSubscription = FALSE
    /\ mmMapped = <<>>
    /\ mmClosures = {}
    /\ mmHandlers = {}
    /\ mmEvents = <<>>
    /\ mmLast = MmRecord("new", NoKey, Undefined, NoParams)

MmInit == MmBuilt("object")

\* the source changed to src; the MappedMap, if it is a handler of the source,
\* ran the handler whose result is r
MmAfterSourceCall(op, k, v, p, src, r) ==
    /\ mmSource' = src
    /\ mmMapped' = IF mmOnSource THEN r.mapped ELSE mmMapped
    /\ mmEvents' = IF mmOnSource THEN r.out ELSE <<>>
    /\ mmClosures' = IF mmOnSource /\ op = "add" THEN mmClosures \cup {k}
                     ELSE mmClosures
    /\ mmLast' = [op |-> op, key |-> k, value |-> v, params |-> p, was |-> mmMapped]
    /\ UNCHANGED <<mmMapper, mmOnSource, mmSubscription, mmHandlers>>
    /\ UNCHANGED <<subVars, jmVars, mlVars, flVars, siVars, fuVars, amVars, uvVars>>

\* source.add(k, v) for a key the source does not hold
MmSourceAdd(k, v) ==
    /\ ~SrcHas(mmSource, k)
    /\ MmAfterSourceCall("add", k, v, NoParams, SrcAdd(mmSource, k, v),
                         MappedMapOnAdd(mmMapper, mmMapped, k, v))

\* source.remove(k) for a key it holds
MmSourceRemove(k) ==
    /\ SrcHas(mmSource, k)
    /\ MmAfterSourceCall("remove", k, SrcGet(mmSource, k), NoParams,
                         SrcRemove(mmSource, k), MappedMapOnRemove(mmMapped, k))

\* source.update(k, params) / set(k, v) for a key it holds
MmSourceUpdate(k, v, p) ==
    /\ SrcHas(mmSource, k)
    /\ MmAfterSourceCall("update", k, v, p, SrcUpdate(mmSource, k, v),
                         MappedMapOnUpdate(mmMapper, mmMapped, k, v, p))

\* source.reset(): the source is cleared
MmSourceReset ==
    /\ mmSource # <<>>
    /\ MmAfterSourceCall("reset", NoKey, Undefined, NoParams, <<>>,
                         MappedMapOnReset(mmMapped))

\* onRemove or onUpdate is called for a key that is in neither the source nor
\* the cache any more (a late event for a key no longer present); the source is
\* as it was
MmStrayEvent(op, k, v, p) ==
    /\ mmOnSource
    /\ ~SrcHas(mmMapped, k)
    /\ ~SrcHas(mmSource, k)
    /\ MmAfterSourceCall(op, k, v, p, mmSource,
                         IF op = "remove" THEN MappedMapOnRemove(mmMapped, k)
                         ELSE MappedMapOnUpdate(mmMapper, mmMapped, k, v, p))

\* a mapped value calls the emitSpontaneousUpdate it was given for key k
MmSpontaneousUpdate(k, p) ==
    /\ k \in mmClosures
    /\ mmEvents' = EmitSpontaneousUpdate(mmMapper, mmMapped, k, p)
    /\ mmLast' = MmRecord("spontaneous", k, Undefined, p)
    /\ UNCHANGED <<mmMapper, mmSource, mmOnSource, mmSubscription, mmMapped,
                   mmClosures, mmHandlers>>
    /\ UNCHANGED <<subVars, jmVars, mlVars, flVars, siVars, fuVars, amVars, uvVars>>

\* mapped.subscribe(h) by a handler that is not subscribed
MmSubscribe(h) ==
    /\ h \notin mmHandlers
    /\ LET r == BaseSubscribe(mmHandlers, h)
       IN  /\ mmHandlers' = r.handlers
           /\ mmOnSource' = (mmOnSource \/ r.hook)
           /\ mmSubscription' = (mmSubscription \/ r.hook)
           /\ mmMapped' = IF r.hook
                          THEN MappedMapOnSubscribeFirst(mmMapper, mmMapped, mmSource)
                          ELSE mmMapped
           /\ mmClosures' = IF r.hook
                            THEN mmClosures \cup {mmSource[i].key : i \in 1..Len(mmSource)}
                            ELSE mmClosures
    /\ mmEvents' = <<>>
    /\ mmLast' = MmRecord("subscribe", NoKey, Undefined, NoParams)
    /\ UNCHANGED <<mmMapper, mmSource>>
    /\ UNCHANGED <<subVars, jmVars, mlVars, flVars, siVars, fuVars, amVars, uvVars>>

\* the closure subscribe returned, called once by a subscribed handler
MmUnsubscribe(h) ==
    /\ h \in mmHandlers
    /\ LET r == BaseUnsubscribe(mmHandlers, h)
           l == MappedMapOnUnsubscribeLast(mmMapped)
       IN  /\ mmHandlers' = r.handlers
           /\ mmOnSource' = IF r.hook THEN l.onSource ELSE mmOnSource
           /\ mmSubscription' = IF r.hook THEN l.subscription ELSE mmSubscription
           /\ mmMapped' = IF r.hook THEN l.mapped ELSE mmMapped
    /\ mmEvents' = <<>>
    /\ mmLast' = MmRecord("unsubscribe", NoKey, Undefined, NoParams)
    /\ UNCHANGED <<mmMapper, mmSource, mmClosures>>
    /\ UNCHANGED <<subVars, jmVars, mlVars, flVars, siVars, fuVars, amVars, uvVars>>

(***************************************************************************)
(* BaseUpdateView over a value that may have on / off.  Every call of      *)
(* _updateFromValue.bind(this) makes a new function; they are numbered.    *)
(***************************************************************************)
\* the mount calls that subscribe, at most
MaxBinds == 5

\* new BaseUpdateView(value) over a value with or without on and off
UvBuilt(hasOn, hasOff) ==
    /\ uvHasOn = hasOn
    /\ uvHasOff = hasOff
    /\ uvBound = 0
    /\ uvBinds = 0
    /\ uvOnValue = {}
    /\ uvLast = [op |-> "new", parent |-> FALSE, offCalls |-> 0, before |-> {},
                 wasBound |-> FALSE]

UvInit == UvBuilt(TRUE, TRUE)

\* BaseUpdateView._subscribe(): with an on method, bind a new function, keep it
\* and register it on the value
ViewSubscribe(hasOn, bound, binds, onValue) ==
    IF hasOn
    THEN [bound |-> binds + 1, binds |-> binds + 1, onValue |-> onValue \cup {binds + 1}]
    ELSE [bound |-> bound, binds |-> binds, onValue |-> onValue]

\* BaseUpdateView._unsubscribe(): with a bound function, take it off the value
\* if the value has an off method, and drop it
ViewUnsubscribe(hasOff, bound, onValue) ==
    IF bound # 0
    THEN [bound |-> 0, offCalls |-> IF hasOff THEN 1 ELSE 0,
          onValue |-> IF hasOff THEN onValue \ {bound} ELSE onValue]
    ELSE [bound |-> bound, offCalls |-> 0, onValue |-> onValue]

\* view.mount(options), parentProvidesUpdates being parent
UvMount(parent) ==
    /\ parent \/ ~uvHasOn \/ uvBinds < MaxBinds
    /\ LET r == IF parent
                THEN [bound |-> uvBound, binds |-> uvBinds, onValue |-> uvOnValue]
                ELSE ViewSubscribe(uvHasOn, uvBound, uvBinds, uvOnValue)
       IN  /\ uvBound' = r.bound
           /\ uvBinds' = r.binds
           /\ uvOnValue' = r.onValue
    /\ uvLast' = [op |-> "mount", parent |-> parent, offCalls |-> 0,
                  before |-> uvOnValue, wasBound |-> uvBound # 0]
    /\ UNCHANGED <<uvHasOn, uvHasOff>>
    /\ UNCHANGED <<subVars, jmVars, mlVars, flVars, siVars, fuVars, mmVars, amVars>>

\* view.unmount()
UvUnmount ==
    /\ LET r == ViewUnsubscribe(uvHasOff, uvBound, uvOnValue)
       IN  /\ uvBound' = r.bound
           /\ uvOnValue' = r.onValue
           /\ uvLast' = [op |-> "unmount", parent |-> FALSE, offCalls |-> r.offCalls,
                         before |-> uvOnValue, wasBound |-> uvBound # 0]
    /\ UNCHANGED <<uvHasOn, uvHasOff, uvBinds>>
    /\ UNCHANGED <<subVars, jmVars, mlVars, flVars, siVars, fuVars, mmVars, amVars>>

(***************************************************************************)
(* Specifications: one per component; the other components stay as built.  *)
(***************************************************************************)
\* the components after the FilteredList, as built
RestInit == SiIdle /\ FuIdle /\ MmInit /\ AmInit /\ UvInit

\* the BaseObservable Collection under every sequence of calls
NextSub ==
    \/ \E h \in Handlers : Subscribe(h)
    \/ \E h \in Handlers \cup {NULL} : Unsubscribe(h)
    \/ UnsubscribeAll
    \/ Emit

\* the four components above, as built
BaseIdle == SubInit /\ JmInit /\ MlInit /\ mlHasUpdater = FALSE
            /\ FlInit /\ flFilter = NoFilter

InitSub == BaseIdle /\ RestInit

SpecSub == InitSub /\ [][NextSub]_vars

\* a JoinedMap over ObservableMaps that change while observers come and go
NextJoined ==
    \/ \E i \in SrcIdx, k \in Keys, v \in Values : SourceAdd(i, k, v)
    \/ \E i \in SrcIdx, k \in Keys : SourceRemove(i, k)
    \/ \E i \in SrcIdx, k \in Keys, v \in Values, p \in Params :
           SourceUpdate(i, k, v, p)
    \/ \E i \in SrcIdx : SourceReset(i)
    \/ \E h \in JmObservers : JmSubscribe(h)
    \/ \E h \in JmObservers : JmUnsubscribe(h)

SpecJoined == InitSub /\ [][NextJoined]_vars

\* the root sources that change under the ApplyMap: the first two
ApplySrcIdx == {i \in SrcIdx : i <= 2}

\* an ApplyMap over a JoinedMap over ObservableMaps: these sources change while
\* subscribers of the ApplyMap come and go
NextChain ==
    \/ \E i \in ApplySrcIdx, k \in Keys, v \in Values : SourceAdd(i, k, v)
    \/ \E i \in ApplySrcIdx, k \in Keys : SourceRemove(i, k)
    \/ \E i \in ApplySrcIdx, k \in Keys, v \in Values, p \in Params :
           SourceUpdate(i, k, v, p)
    \/ \E i \in ApplySrcIdx : SourceReset(i)
    \/ \E h \in Handlers : AmSubscribe(h)
    \/ \E h \in Handlers : AmUnsubscribe(h)

SpecChain == InitSub /\ [][NextChain]_vars

\* an ApplyMap built with or without a callback over the JoinedMap: the sources
\* change, the callback is replaced, a subscriber comes and goes
NextApply ==
    \/ \E i \in ApplySrcIdx, k \in Keys, v \in Values : SourceAdd(i, k, v)
    \/ \E i \in ApplySrcIdx, k \in Keys : SourceRemove(i, k)
    \/ \E i \in ApplySrcIdx, k \in Keys, v \in Values, p \in Params :
           SourceUpdate(i, k, v, p)
    \/ \E i \in ApplySrcIdx : SourceReset(i)
    \/ \E apply \in BOOLEAN : AmSetApply(apply)
    \/ AmApplyOnce
    \/ \E h \in JmObservers : AmSubscribe(h)
    \/ \E h \in JmObservers : AmUnsubscribe(h)

InitApply ==
    BaseIdle /\ SiIdle /\ FuIdle /\ MmInit /\ (\E apply \in BOOLEAN : AmBuilt(apply))
    /\ UvInit

SpecApply == InitApply /\ [][NextApply]_vars

\* a MappedList over an ObservableArray
NextMapped ==
    \/ \E idx \in 0..MaxLen, v \in Elems : MlSourceAdd(idx, v)
    \/ \E idx \in 0..MaxLen : MlSourceRemove(idx)
    \/ \E idx \in 0..MaxLen, v \in Elems, p \in Params : MlSourceUpdate(idx, v, p)
    \/ \E from \in 0..MaxLen, to \in 0..MaxLen : MlSourceMove(from, to)
    \/ \E h \in Handlers : MlSubscribe(h)
    \/ \E h \in Handlers : MlUnsubscribe(h)

InitMapped == SubInit /\ JmInit /\ MlInit /\ FlInit /\ flFilter = NoFilter /\ RestInit

SpecMapped == InitMapped /\ [][NextMapped]_vars

\* a FilteredList over an ObservableArray
NextFiltered ==
    \/ \E idx \in 0..MaxLen, v \in Elems : FlSourceAdd(idx, v)
    \/ \E idx \in 0..MaxLen : FlSourceRemove(idx)
    \/ \E idx \in 0..MaxLen, v \in Elems, p \in Params : FlSourceUpdate(idx, v, p)
    \/ \E from \in 0..MaxLen, to \in 0..MaxLen : FlSourceMove(from, to)
    \/ \E items \in ListsUpTo(MaxLen) : FlSourceReset(items)
    \/ \E f \in Filters \cup {NoFilter} : FlSetFilter(f)
    \/ \E h \in Handlers : FlSubscribe(h)
    \/ \E h \in Handlers : FlUnsubscribe(h)

InitFiltered == SubInit /\ JmInit /\ MlInit /\ mlHasUpdater = FALSE /\ FlInit /\ RestInit

SpecFiltered == InitFiltered /\ [][NextFiltered]_vars

\* a FilteredList with one subscriber over a source list that is edited in
\* place (insert, remove, update) while the predicate is replaced
NextFilteredEdit ==
    \/ \E idx \in 0..MaxLen, v \in Elems : FlSourceAdd(idx, v)
    \/ \E idx \in 0..MaxLen : FlSourceRemove(idx)
    \/ \E idx \in 0..MaxLen, v \in Elems, p \in Params : FlSourceUpdate(idx, v, p)
    \/ \E f \in Filters \cup {NoFilter} : FlSetFilter(f)
    \/ \E h \in JmObservers : FlSubscribe(h)
    \/ \E h \in JmObservers : FlUnsubscribe(h)

SpecFilteredEdit == InitFiltered /\ [][NextFilteredEdit]_vars

\* a FilteredList whose source emits during its subscribe() and whose
\* unsubscribe closures are called twice
NextFilteredRough ==
    \/ \E idx \in 0..MaxLen, v \in Elems : FlSourceAdd(idx, v)
    \/ \E idx \in 0..MaxLen : FlSourceRemove(idx)
    \/ \E idx \in 0..MaxLen, v \in Elems, p \in Params : FlSourceUpdate(idx, v, p)
    \/ \E from \in 0..MaxLen, to \in 0..MaxLen : FlSourceMove(from, to)
    \/ \E items \in ListsUpTo(MaxLen) : FlSourceReset(items)
    \/ \E f \in Filters \cup {NoFilter} : FlSetFilter(f)
    \/ \E h \in Handlers : FlSubscribe(h)
    \/ \E h \in Handlers : FlUnsubscribe(h)
    \/ \E h \in Handlers, c \in FlCalls : FlSubscribeReentrant(h, c)
    \/ \E h \in Handlers : FlUnsubscribeAgain(h)

SpecFilteredRough == InitFiltered /\ [][NextFilteredRough]_vars

\* sortedIndex called with every sorted array and value
NextSorted ==
    \/ \E array \in SortedArrays(SiMaxLen), value \in SiValues :
           SortedIndexCall(array, value)

InitSorted == BaseIdle /\ SiInit /\ FuIdle /\ MmInit /\ AmInit /\ UvInit

SpecSorted == InitSorted /\ [][NextSorted]_vars

\* sortedIndex called with every array, value and comparator, run one loop
\* iteration at a time; a call that has started keeps running
NextSortedLoop == SortedIndexStep

InitSortedLoop ==
    /\ BaseIdle /\ FuIdle /\ MmInit /\ AmInit /\ UvInit
    /\ \E array \in SiArrays(SiMaxLen), value \in SiValues, c \in SiComparators :
           SortedIndexEnter(array, value, c)

SpecSortedLoop ==
    InitSortedLoop /\ [][NextSortedLoop]_vars /\ WF_vars(SortedIndexStep)

\* findAndUpdateInArray called with every predicate, array and updater
NextFind ==
    \/ \E q \in Predicates, array \in ListsUpTo(FuMaxLen), u \in Updaters :
           FindAndUpdateCall(q, array, u)

InitFind == BaseIdle /\ SiIdle /\ FuInit /\ MmInit /\ AmInit /\ UvInit

SpecFind == InitFind /\ [][NextFind]_vars

\* a MappedMap over an ObservableMap
NextMappedMap ==
    \/ \E k \in Keys, v \in Values : MmSourceAdd(k, v)
    \/ \E k \in Keys : MmSourceRemove(k)
    \/ \E k \in Keys, v \in Values, p \in Params : MmSourceUpdate(k, v, p)
    \/ MmSourceReset
    \/ \E k \in Keys, v \in Values : MmStrayEvent("remove", k, v, NoParams)
    \/ \E k \in Keys, v \in Values, p \in Params : MmStrayEvent("update", k, v, p)
    \/ \E k \in Keys, p \in Params : MmSpontaneousUpdate(k, p)
    \/ \E h \in Handlers : MmSubscribe(h)
    \/ \E h \in Handlers : MmUnsubscribe(h)

InitMappedMap ==
    BaseIdle /\ SiIdle /\ FuIdle /\ (\E mp \in MapMappers : MmBuilt(mp)) /\ AmInit
    /\ UvInit

SpecMappedMap == InitMappedMap /\ [][NextMappedMap]_vars

\* a BaseUpdateView under every sequence of mount and unmount calls
NextView ==
    \/ \E parent \in BOOLEAN : UvMount(parent)
    \/ UvUnmount

InitView ==
    BaseIdle /\ SiIdle /\ FuIdle /\ MmInit /\ AmInit
    /\ (\E hasOn \in BOOLEAN, hasOff \in BOOLEAN : UvBuilt(hasOn, hasOff))

SpecView == InitView /\ [][NextView]_vars

(***************************************************************************)
(* Properties                                                              *)
(***************************************************************************)
\* C1: over every sequence of subscribe / unsubscribe / unsubscribeAll calls,
\* onSubscribeFirst has run once per time the handler count left 0,
\* onUnsubscribeLast once per time it came back to 0, and never otherwise.
C1_HooksOncePerTransition ==
    /\ firstSubscribeCalls = upTransitions
    /\ firstUnsubscribeCalls = downTransitions

\* C2: unsubscribing a handler that was subscribed and has been removed already
\* leaves the handler set as it was and runs no lifecycle hook.
C2_DoubleUnsubscribeNoOp ==
    (subLast.op = "unsubscribe" /\ subLast.h # NULL /\ subLast.wasRemoved)
        => (handlers = subLast.before /\ subLast.hooks = NoHooks)

\* the sources that hold key k
Holders(srcs, k) == {i \in 1..Len(srcs) : SrcHas(srcs[i], k)}
\* the smallest member of a non-empty set of positions
Lowest(S) == CHOOSE i \in S : \A j \in S : i <= j
\* the value of k in the lowest-indexed source that holds it
VisibleValue(srcs, k) == SrcGet(srcs[Lowest(Holders(srcs, k))], k)
\* the values the iteration yields for key k
Yielded(srcs, k) ==
    LET es == JoinedIterate(srcs)
    IN  [i \in {j \in 1..Len(es) : es[j].key = k} |-> es[i].value]

\* C3: for every key some source holds, get(k) is the value of the lowest-indexed
\* source holding k, for every stored value (0 included), and the iteration
\* yields k once, with that value.
C3_JoinedVisibility ==
    \A k \in Keys :
        Holders(sources, k) # {} =>
            /\ JoinedGet(sources, k) = VisibleValue(sources, k)
            /\ Cardinality(DOMAIN Yielded(sources, k)) = 1
            /\ \A i \in DOMAIN Yielded(sources, k) :
                   Yielded(sources, k)[i] = VisibleValue(sources, k)

\* the last call was op on a source, made while the JoinedMap had a subscriber
JmObserved(op) == jmLast.op = op
\* some source before / after the one of the last call holds the key of that call
EarlierHolds == \E i \in Holders(sources, jmLast.key) : i < jmLast.src
LaterHolders == {i \in Holders(sources, jmLast.key) : i > jmLast.src}
\* the value of that key in the first later source holding it
FirstLaterValue == SrcGet(sources[Lowest(LaterHolders)], jmLast.key)

\* C4: a key added to source i of a subscribed JoinedMap while no earlier source
\* holds it makes the JoinedMap emit remove(key, value of the first later source
\* holding it) and then add(key, new value) when a later source holds the key,
\* and add(key, new value) alone when none does.
C4_OcclusionOnAdd ==
    (JmObserved("add") /\ ~EarlierHolds) =>
        jmEvents =
            (IF LaterHolders # {}
             THEN <<Ev("remove", jmLast.key, FirstLaterValue, NoParams)>>
             ELSE <<>>)
            \o <<Ev("add", jmLast.key, jmLast.value, NoParams)>>

\* an add to the first source while the second and the third hold the key with
\* different values
C4_Witness ==
    /\ JmObserved("add") /\ jmLast.src = 1
    /\ LaterHolders = {2, 3}
    /\ SrcGet(sources[2], jmLast.key) # SrcGet(sources[3], jmLast.key)
    /\ Len(jmEvents) = 2

\* C5: a key removed from source i of a subscribed JoinedMap while no earlier
\* source holds it makes the JoinedMap emit remove(key, removed value) and then,
\* when a later source holds the key, add(key, value of the first such source);
\* nothing else.
C5_OcclusionOnRemove ==
    (JmObserved("remove") /\ ~EarlierHolds) =>
        jmEvents =
            <<Ev("remove", jmLast.key, jmLast.value, NoParams)>>
            \o (IF LaterHolders # {}
                THEN <<Ev("add", jmLast.key, FirstLaterValue, NoParams)>>
                ELSE <<>>)

\* a remove from the first source that uncovers the second source's value, which
\* differs from the third's
C5_Witness ==
    /\ JmObserved("remove") /\ jmLast.src = 1
    /\ LaterHolders = {2, 3}
    /\ SrcGet(sources[2], jmLast.key) # SrcGet(sources[3], jmLast.key)
    /\ Len(jmEvents) = 2

\* C6: an add, update or remove of a key in a source while an earlier source
\* holds the key emits nothing; an update of a key no earlier source holds is
\* forwarded as one update with the same key, value and params.
C6_OccludedNeverSurface ==
    /\ (jmLast.op \in {"add", "update", "remove"} /\ EarlierHolds) => jmEvents = <<>>
    /\ (JmObserved("update") /\ ~EarlierHolds) =>
           jmEvents = <<Ev("update", jmLast.key, jmLast.value, jmLast.params)>>

\* an occluded update of the last source's entry, seen by a subscriber, the
\* occluding value being falsy
C6_Witness ==
    /\ JmObserved("update") /\ jmLast.src = NumSources
    /\ EarlierHolds
    /\ VisibleValue(sources, jmLast.key) = 0
    /\ jmEvents = <<>>

\* C7: the events a subscriber gets never add a key that is live nor remove or
\* update one that is not, and the map built from them equals the JoinedMap's
\* iteration after every source call.
C7_ReplicaIsIteration ==
    jmHandlers # {} => (replicaOk /\ replica = IterMap(sources))

\* after a remove that uncovered a later source's value the replica holds it
C7_Witness ==
    /\ JmObserved("remove") /\ Len(jmEvents) = 2
    /\ replica[jmLast.key] = FirstLaterValue
    /\ FirstLaterValue # jmLast.value

\* all entries of all sources, in source order
RECURSIVE ConcatFrom(_, _)
ConcatFrom(srcs, i) ==
    IF i > Len(srcs) THEN <<>> ELSE srcs[i] \o ConcatFrom(srcs, i + 1)
\* the entries of es whose key no entry before them has
FirstOfKey(es) ==
    LET keep == {i \in 1..Len(es) : \A j \in 1..(i - 1) : es[j].key # es[i].key}
        pick[n \in 0..Len(es)] ==
            IF n = 0 THEN <<>>
            ELSE IF n \in keep THEN Append(pick[n - 1], es[n]) ELSE pick[n - 1]
    IN  pick[Len(es)]

\* C8: the iteration is the sources' entries in source order, every key once,
\* at its first occurrence (so with the first holding source's value), and it
\* ends after the last source, empty sources included.
C8_IterationIsFirstOccurrences ==
    /\ JoinedIterate(sources) = FirstOfKey(ConcatFrom(sources, 1))
    /\ \A k \in Keys : Holders(sources, k) # {} =>
           IterMap(sources)[k] = VisibleValue(sources, k)

\* the first source is empty and a key of the second is skipped in the third
C8_Witness ==
    /\ sources[1] = <<>>
    /\ \E k \in Keys : Holders(sources, k) = {2, 3}
                       /\ SrcGet(sources[2], k) # SrcGet(sources[3], k)
    /\ Len(JoinedIterate(sources)) = 2

\* C9 as stated: while the MappedList is subscribed its cache is as long as the
\* source and holds mapper(source[i]) at every position i.
C9_CacheIsMappedSource ==
    mlHandlers # {} =>
        /\ MappedLength(mlMapped) = Len(mlSource)
        /\ \A i \in 1..Len(mlSource) : MappedIterate(mlMapped)[i] = Mapper(mlSource[i])

\* what the cache holds for a position: the mapped value of the element the
\* position was mapped from, with the updater's effect of the last update
CachedFor(o) ==
    IF mlHasUpdater /\ o.upd # NoElem THEN Updater(Mapper(o.from), NoParams, o.upd)
    ELSE Mapper(o.from)

\* C9 amended: while the MappedList is subscribed, over add/remove/update/move of
\* the source, its cache is as long as the source; position i holds the value
\* mapped from the element that was added there (or was there on the first
\* subscription), which an update does not map again but hands to the updater;
\* it is mapper(source[i]) wherever no update has touched the element.
C9_CacheFollowsSource ==
    mlHandlers # {} =>
        /\ MappedLength(mlMapped) = Len(mlSource)
        /\ Len(mlOrigin) = Len(mlSource)
        /\ \A i \in 1..Len(mlSource) :
               /\ MappedIterate(mlMapped)[i] = CachedFor(mlOrigin[i])
               /\ mlOrigin[i].upd = NoElem =>
                      MappedIterate(mlMapped)[i] = Mapper(mlSource[i])

\* a subscribed MappedList over three elements after a move, one of them updated
C9_Witness ==
    /\ mlHandlers # {} /\ Len(mlSource) = 3
    /\ mlEvents # <<>> /\ mlEvents[1].type = "move"
    /\ \E i \in 1..3 : mlOrigin[i].upd # NoElem /\ mlOrigin[i].upd # mlOrigin[i].from
    /\ \E i, j \in 1..3 : mlSource[i] # mlSource[j]

\* the source items the predicate accepts at their index, in source order
RECURSIVE Accepted(_, _, _)
Accepted(f, src, i) ==
    IF i >= Len(src) THEN <<>>
    ELSE (IF Filter(f, src[i + 1], i) THEN <<src[i + 1]>> ELSE <<>>)
         \o Accepted(f, src, i + 1)

\* C10: while a FilteredList with a predicate is subscribed, after any source
\* add/remove/update/move/reset its length is the number of source elements that
\* satisfy the predicate and its iteration is those elements in source order.
C10_FilteredIsSourceRestricted ==
    (flHandlers # {} /\ flFilter # NoFilter) =>
        /\ FilteredLength(flIncluded) = Len(Accepted(flFilter, flSource, 0))
        /\ FilteredIterate(flSource, flIncluded) = Accepted(flFilter, flSource, 0)

\* C11: while a FilteredList with a predicate is subscribed, every index of the
\* events a source add/remove/update/move makes it emit is valid in the
\* observer's copy (add and move destination after the event, remove and move
\* source before it), and the copy built from the events equals the source
\* restricted to the predicate.
C11_FilteredEventsRebuildList ==
    (/\ flHandlers # {} /\ flFilter # NoFilter
     /\ flLast.op \in {"add", "remove", "update", "move"}) =>
        /\ flReplicaOk
        /\ flReplica = Accepted(flFilter, flSource, 0)

\* C12: setFilter on a subscribed FilteredList with the predicate that is already
\* installed emits nothing and leaves the inclusion mask as it was.
C12_SetSameFilterIsSilent ==
    (/\ flLast.op = "setFilter" /\ flLast.same
     /\ flFilter # NoFilter /\ flHandlers # {}) =>
        /\ flEvents = <<>>
        /\ flLast.kept

\* the indices of fuArray whose element satisfies the predicate
Matches == {i \in 0..(Len(fuArray) - 1) : Predicate(fuPredicate, fuArray[i + 1])}
FirstMatch == CHOOSE i \in Matches : \A j \in Matches : i <= j

\* C13: findAndUpdateInArray calls the updater at most once, with the first
\* element that satisfies the predicate and only when there is one; it returns
\* true exactly when there is one; when the updater returns false no update is
\* emitted, otherwise exactly one, at the index of that element, carrying the
\* element and the params the updater returned.
C13_FindAndUpdateContract ==
    /\ fuResult.found = (Matches # {})
    /\ Matches = {} => (fuResult.calls = <<>> /\ fuResult.events = <<>>)
    /\ Matches # {} =>
           LET value == fuArray[FirstMatch + 1]
               r == RunUpdater(fuUpdater, value)
           IN  /\ fuResult.calls = <<value>>
               /\ r.bail => fuResult.events = <<>>
               /\ ~r.bail => fuResult.events =
                                 <<LEv("update", FirstMatch, NoIdx, value, r.params)>>

\* two elements satisfy the predicate, the first of them after another element,
\* and the updater declined only because of the element it was given
C13_Witness ==
    /\ Cardinality(Matches) = 2 /\ FirstMatch = 1
    /\ fuUpdater = "bailOnOne" /\ fuResult.found
    /\ fuResult.calls = <<1>> /\ fuResult.events = <<>>

\* C14: for every sorted array sortedIndex returns the leftmost index at which
\* the value can be inserted keeping the array sorted: the number of elements
\* that sort before the value.
C14_SortedIndexLeftmost ==
    siResult = Cardinality({i \in 1..Len(siArray) : Comparator(siArray[i], siValue) < 0})

\* the derived state of each operator is null or empty exactly when the operator
\* has no subscriber
MlDerivedIffSubscribed ==
    /\ mlHandlers = {} => (mlMapped.null \/ mlMapped.arr = <<>>)
    /\ mlHandlers # {} => ~mlMapped.null
FlDerivedIffSubscribed ==
    /\ flHandlers = {} => flIncluded.null
    /\ (flHandlers # {} /\ flFilter # NoFilter) => ~flIncluded.null
JmDerivedIffSubscribed ==
    /\ jmHandlers = {} =>
           (jmSubscriptions.null \/ \A i \in SrcIdx : ~jmSubscriptions.held[i])
    /\ jmHandlers # {} =>
           (~jmSubscriptions.null /\ \A i \in SrcIdx : jmSubscriptions.held[i])
MmDerivedIffSubscribed ==
    /\ mmHandlers = {} => (mmMapped = <<>> /\ ~mmSubscription)
    /\ mmHandlers # {} =>
           /\ mmSubscription
           /\ {mmMapped[i].key : i \in 1..Len(mmMapped)}
                  = {mmSource[i].key : i \in 1..Len(mmSource)}

\* C15: for every operator (MappedList, MappedMap, FilteredList, JoinedMap) and
\* every sequence of subscribe/unsubscribe calls, the derived state (value
\* cache, inclusion mask, source subscription handles) is null or empty exactly
\* when the operator has no subscriber.
C15_DerivedStateIffSubscribed ==
    /\ MlDerivedIffSubscribed
    /\ MmDerivedIffSubscribed
    /\ FlDerivedIffSubscribed
    /\ JmDerivedIffSubscribed

\* C16: a source event (add, remove, update, move or reset) that reaches an
\* operator while it is inside its own onSubscribeFirst is discarded: nothing is
\* emitted downstream, nothing is thrown, and the derived state after the setup
\* is the one a setup without the event builds over the source.
C16_ReentrantEventDiscarded ==
    flLast.op = "subscribeReentrant" =>
        /\ flEvents = <<>>
        /\ ~flLast.threw
        /\ flIncluded = FilteredOnSubscribeFirst(flFilter, NullArr, flSource)

\* C18: the unsubscribe closure of a FilteredList called a second time, when no
\* source subscription handle is held any more, raises no error and leaves the
\* operator state (handlers, mask, handle, registration on the source) as it was.
C18_RepeatedReleaseIsNoOp ==
    flLast.op = "unsubscribeAgain" => (~flLast.threw /\ flLast.kept)

C21_SubscribeTwiceIsOnce ==
    /\ (subLast.op = "subscribe" /\ subLast.h \in subLast.before) =>
           handlers = subLast.before
    /\ subLast.op = "emit" =>
           \A h \in Handlers : delivered[h] = (IF h \in handlers THEN 1 ELSE 0)
    /\ (subLast.op = "unsubscribe" /\ subLast.wasTwice) =>
           /\ subLast.h \notin handlers
           /\ handlers = subLast.before \ {subLast.h}
           /\ (subLast.before = {subLast.h}) => ~HasSubscriptions(handlers)

\* the only handler, subscribed twice, has been unsubscribed once
C21_Witness ==
    /\ subLast.op = "unsubscribe"
    /\ subLast.wasTwice
    /\ subLast.before = {subLast.h}

\* C22: unsubscribe(null) leaves the handler set and hasSubscriptions as they
\* were and runs no lifecycle hook, in every state, the empty set included.
C22_UnsubscribeNullNoOp ==
    (subLast.op = "unsubscribe" /\ subLast.h = NULL) =>
        /\ handlers = subLast.before
        /\ HasSubscriptions(handlers) = HasSubscriptions(subLast.before)
        /\ subLast.hooks = NoHooks

\* unsubscribe(null) on a collection without handlers
C22_Witness ==
    /\ subLast.op = "unsubscribe"
    /\ subLast.h = NULL
    /\ subLast.before = {}

\* the number of entries of the mask arr before index idx that are included
IncludedBefore(arr, idx) == Cardinality({i \in 0..(idx - 1) : IncAt(arr, i)})

\* the events of evs that are not updates
Structural(evs) == SelectSeq(evs, LAMBDA e : e.type # "update")

\* C23: with a predicate and a subscriber, a source add of an element the
\* predicate excludes emits nothing and one of an included element emits an add
\* at the number of included elements before it, and no other add or remove; a
\* source remove emits a remove at that number, and no other add or remove, if
\* the element was included, and emits nothing if it was excluded.
C23_FilteredAddRemove ==
    (flHandlers # {} /\ flFilter # NoFilter /\ flLast.op \in {"add", "remove"}) =>
        LET at == IncludedBefore(flLast.mask.arr, flLast.idx)
            concerned == IF flLast.op = "add"
                         THEN Filter(flFilter, flLast.value, flLast.idx)
                         ELSE IncAt(flLast.mask.arr, flLast.idx)
        IN  IF concerned
            THEN Structural(flEvents)
                     = <<LEv(flLast.op, at, NoIdx, flLast.value, NoParams)>>
            ELSE flEvents = <<>>

\* C24: with a predicate and a subscriber, a source update re-runs the predicate
\* on the new value and emits, at the number of included elements before the
\* index: one remove if the element was included and is not any more, one add if
\* it was excluded and is included now, one update with the source's params if
\* it stays included, nothing if it stays excluded; the mask bit of the index
\* becomes the new inclusion and every other bit stays.
C24_FilteredUpdate ==
    (flHandlers # {} /\ flFilter # NoFilter /\ flLast.op = "update") =>
        LET old == flLast.mask.arr
            idx == flLast.idx
            was == IncAt(old, idx)
            is == Filter(flFilter, flLast.value, idx)
            at == IncludedBefore(old, idx)
        IN  /\ flEvents =
                   (IF was /\ ~is
                    THEN <<LEv("remove", at, NoIdx, flLast.value, NoParams)>>
                    ELSE IF ~was /\ is
                    THEN <<LEv("add", at, NoIdx, flLast.value, NoParams)>>
                    ELSE IF was /\ is
                    THEN <<LEv("update", at, NoIdx, flLast.value, flLast.params)>>
                    ELSE <<>>)
            /\ ~flIncluded.null
            /\ Len(flIncluded.arr) = Len(old)
            /\ \A i \in 0..(Len(old) - 1) :
                   IncAt(flIncluded.arr, i) = (IF i = idx THEN is ELSE IncAt(old, i))

\* an included element behind another included one is updated to a value the
\* predicate excludes
C24_Witness ==
    /\ flHandlers # {}
    /\ flFilter # NoFilter
    /\ flLast.op = "update"
    /\ IncAt(flLast.mask.arr, flLast.idx)
    /\ ~Filter(flFilter, flLast.value, flLast.idx)
    /\ IncludedBefore(flLast.mask.arr, flLast.idx) > 0

\* C25: with a predicate and a subscriber, a source move(from, to) recomputes
\* the inclusion at the destination; an element that stays included is moved
\* from its old place in the filtered list to the place it has there after the
\* move, one that becomes excluded is removed from its old place, one that
\* becomes included is added at its new place, one that stays excluded causes no
\* move, add or remove; the mask keeps its length and holds the new inclusion at
\* index to.
C25_FilteredMove ==
    (flHandlers # {} /\ flFilter # NoFilter /\ flLast.op = "move") =>
        LET old == flLast.mask.arr
            from == flLast.idx
            to == flLast.to
            was == IncAt(old, from)
            is == Filter(flFilter, flLast.value, to)
            relocated == InsertAt(RemoveAt(old, from), to, is)
            tfrom == IncludedBefore(old, from)
            tto == IncludedBefore(relocated, to)
        IN  /\ Structural(flEvents) =
                   (IF was /\ is
                    THEN <<LEv("move", tfrom, tto, flLast.value, NoParams)>>
                    ELSE IF was /\ ~is
                    THEN <<LEv("remove", tfrom, NoIdx, flLast.value, NoParams)>>
                    ELSE IF ~was /\ is
                    THEN <<LEv("add", tto, NoIdx, flLast.value, NoParams)>>
                    ELSE <<>>)
            /\ ~flIncluded.null
            /\ Len(flIncluded.arr) = Len(old)
            /\ IncAt(flIncluded.arr, to) = is

\* whether source index i counted as included under the mask old
WasIncluded(old, i) == IF old.null THEN TRUE ELSE IncAt(old.arr, i)

\* the adds and removes a re-evaluation under predicate f owes an observer, in
\* source order from index i on, t being the included elements before i
RECURSIVE Reevaluation(_, _, _, _, _)
Reevaluation(f, old, src, i, t) ==
    IF i >= Len(src) THEN <<>>
    ELSE LET was == WasIncluded(old, i)
             now == IF f = NoFilter THEN TRUE ELSE Filter(f, src[i + 1], i)
             ev == IF was /\ ~now
                   THEN <<LEv("remove", t, NoIdx, src[i + 1], NoParams)>>
                   ELSE IF ~was /\ now
                   THEN <<LEv("add", t, NoIdx, src[i + 1], NoParams)>>
                   ELSE <<>>
         IN  ev \o Reevaluation(f, old, src, i + 1, IF now THEN t + 1 ELSE t)

\* C26: setFilter on a subscribed FilteredList walks the source once, in source
\* order, and emits a remove for each element that was included and is excluded
\* now and an add for each that was excluded and is included now, at the
\* position among the elements included now; an observer's copy that was right
\* before the call then equals the source restricted to the new predicate.  setFilter(null) emits an add for
\* every element that was excluded, nothing else, and leaves no mask.
C26_SetFilterReevaluates ==
    (flHandlers # {} /\ flLast.op = "setFilter") =>
        /\ Structural(flEvents)
               = Reevaluation(flFilter, flLast.mask, flSource, 0, 0)
        /\ flLast.sound =>
               /\ flReplicaOk
               /\ flReplica = (IF flFilter = NoFilter THEN flSource
                               ELSE Accepted(flFilter, flSource, 0))
        /\ flFilter = NoFilter =>
               /\ flEvents = Reevaluation(NoFilter, flLast.mask, flSource, 0, 0)
               /\ flIncluded.null
        /\ flFilter # NoFilter =>
               /\ ~flIncluded.null
               /\ FilteredIterate(flSource, flIncluded) = Accepted(flFilter, flSource, 0)

\* a new predicate was installed that takes one element out and lets another in
C26_Witness ==
    /\ flHandlers # {}
    /\ flLast.op = "setFilter"
    /\ ~flLast.same
    /\ flLast.sound
    /\ flFilter # NoFilter
    /\ \E e \in 1..Len(flEvents) : flEvents[e].type = "remove"
    /\ \E e \in 1..Len(flEvents) : flEvents[e].type = "add"

\* the event of the last source call, as the source emitted it
SourceEvent ==
    LEv(flLast.op, flLast.idx, flLast.to, flLast.value, flLast.params)

\* with no filter, a subscribed FilteredList re-emits the event of each source
\* add, remove, update and move once, as it is, and allocates no mask
NoFilterEvents ==
    (/\ flHandlers # {}
     /\ flFilter = NoFilter
     /\ flLast.op \in {"add", "remove", "update", "move"}
     /\ flLast.mask.null) =>
        /\ flEvents = <<SourceEvent>>
        /\ flIncluded.null

\* C27: a subscribed FilteredList with no filter is a passthrough: each source
\* add, remove, update and move is re-emitted once with the source's indices,
\* value and params, the mask stays unallocated, and the list's length and
\* iteration are the source's.
C27_NoFilterPassthrough ==
    /\ NoFilterEvents
    /\ (flHandlers # {} /\ flFilter = NoFilter /\ flIncluded.null) =>
           /\ FilteredLength(flIncluded) = Len(flSource)
           /\ FilteredIterate(flSource, flIncluded) = flSource

\* C28: a mapped value that calls its emitSpontaneousUpdate with params p makes
\* the MappedMap emit exactly one update(k, cached mapped value, p) when k's
\* mapped value is still cached, whatever the mapped value is (a falsy one
\* included), and nothing when the key has left the cache.
C28_SpontaneousUpdate ==
    mmLast.op = "spontaneous" =>
        mmEvents = (IF SrcHas(mmMapped, mmLast.key)
                    THEN <<Ev("update", mmLast.key, MapGet(mmMapped, mmLast.key),
                              mmLast.params)>>
                    ELSE <<>>)

\* the entries of the cache a apart from key k
CacheWithout(a, k) == SelectSeq(a, LAMBDA e : e.key # k)

\* C29: a MappedMap that is a handler of its source translates a source add
\* into caching mapper(value) under the key and one add carrying it; a source
\* remove of a cached key into one remove carrying the cached mapped value, the
\* key leaving the cache; a source update of a cached key into running the
\* updater on the cached value and one update carrying that cached value and
\* the source's params; a remove or update of a key that is not cached changes
\* nothing and emits nothing.
C29_MappedMapTranslation ==
    (mmOnSource /\ mmLast.op \in {"add", "remove", "update"}) =>
        LET k == mmLast.key
            was == mmLast.was
            others == CacheWithout(mmMapped, k) = CacheWithout(was, k)
        IN  CASE mmLast.op = "add" ->
                   /\ SrcHas(mmMapped, k)
                   /\ MapGet(mmMapped, k) = MapMapper(mmMapper, mmLast.value)
                   /\ others
                   /\ mmEvents = <<Ev("add", k, MapGet(mmMapped, k), NoParams)>>
              [] mmLast.op = "remove" /\ SrcHas(was, k) ->
                   /\ ~SrcHas(mmMapped, k)
                   /\ others
                   /\ mmEvents = <<Ev("remove", k, MapGet(was, k), NoParams)>>
              [] mmLast.op = "update" /\ SrcHas(was, k) ->
                   /\ SrcHas(mmMapped, k)
                   /\ MapGet(mmMapped, k)
                          = MapUpdater(mmMapper, MapGet(was, k), mmLast.params,
                                       mmLast.value)
                   /\ others
                   /\ mmEvents = <<Ev("update", k, MapGet(mmMapped, k),
                                      mmLast.params)>>
              [] OTHER -> mmMapped = was /\ mmEvents = <<>>

\* a cached key has been removed, its mapped value having been changed by the
\* updater before
C29_Witness ==
    /\ mmOnSource
    /\ mmHandlers # {}
    /\ mmLast.op = "remove"
    /\ SrcHas(mmLast.was, mmLast.key)
    /\ MapGet(mmLast.was, mmLast.key) # MapMapper(mmMapper, mmLast.value)
    /\ Len(mmEvents) = 1

\* the positions of a trace that hold an event of one of the types ts
Positions(trace, ts) == {i \in 1..Len(trace) : trace[i].type \in ts}

\* C30: an ApplyMap with a callback calls it exactly once for every source add
\* and every source update, with the entry's key and value (and the params of
\* an update), before it re-emits the event; it does not call it for a source
\* remove; with or without a callback every source add, remove, update and
\* reset comes out as exactly one event of the same type, key, value and params.
C30_ApplyThenReemit ==
    (TheApplyMap \in jmHandlers
     /\ jmLast.op \in {"add", "remove", "update", "reset"}) =>
        /\ Emits(amTrace) = jmEvents
        /\ amEvents = jmEvents
        /\ ~amApply => Positions(amTrace, {"apply"}) = {}
        /\ amApply =>
               /\ \A i \in Positions(amTrace, {"add", "update"}) :
                      /\ i > 1
                      /\ amTrace[i - 1]
                             = ApplyCall(amTrace[i].key, amTrace[i].value,
                                         amTrace[i].params)
               /\ Positions(jmEvents, {"reset"}) = {} =>
                      Cardinality(Positions(amTrace, {"apply"}))
                          = Cardinality(Positions(amTrace, {"add", "update"}))

\* a callback is installed and a source update has passed through
C30_Witness ==
    /\ amApply
    /\ amHandlers # {}
    /\ jmLast.op = "update"
    /\ Len(amTrace) = 2
    /\ amTrace[1].type = "apply"
    /\ amTrace[1].params \in Params
    /\ amTrace[2].type = "update"

\* the _apply calls of a trace
Applies(trace) == SelectSeq(trace, LAMBDA e : e.type = "apply")

\* the calls are one per entry of es, in the order of es
OncePerEntry(calls, es) ==
    /\ Len(calls) = Len(es)
    /\ \A i \in 1..Len(es) :
           /\ calls[i].key = es[i].key
           /\ calls[i].value = es[i].value

\* C31: applyOnce, setApply with a callback, a source reset and the first
\* subscription (the last two with a callback installed) call the callback once
\* per entry the source holds, in the order of the source's iteration; setApply
\* replays with or without subscribers; setApply(null) calls nothing, and with no
\* callback installed no source event calls one.
C31_ApplyReplay ==
    LET es == JoinedIterate(sources)
    IN  /\ jmLast.op = "applyOnce" => OncePerEntry(amTrace, es)
        /\ (jmLast.op = "setApply" /\ amApply) => OncePerEntry(amTrace, es)
        /\ (jmLast.op = "setApply" /\ ~amApply) => amTrace = <<>>
        /\ (jmLast.op = "subscribe" /\ amHandlers # {} /\ amApply) =>
               OncePerEntry(amTrace, es)
        /\ (jmLast.op = "reset" /\ TheApplyMap \in jmHandlers /\ amApply
            /\ Len(jmEvents) = 1 /\ jmEvents[1].type = "reset") =>
               /\ OncePerEntry(Applies(amTrace), es)
               /\ amTrace[Len(amTrace)].type = "reset"
        /\ (~amApply /\ jmLast.op # "applyOnce") => Applies(amTrace) = <<>>

\* a callback was installed on an ApplyMap without subscribers whose source
\* yields two entries
C31_Witness ==
    /\ jmLast.op = "setApply"
    /\ amApply
    /\ amHandlers = {}
    /\ Len(JoinedIterate(sources)) >= 2
    /\ Len(amTrace) >= 2

\* the entries of the sources, as (source, key) pairs
SourceEntries == {ik \in SrcIdx \X Keys : SrcHas(sources[ik[1]], ik[2])}

\* the entries whose key an earlier source holds as well
OccludedEntries ==
    {ik \in SourceEntries : \E j \in 1..(ik[1] - 1) : SrcHas(sources[j], ik[2])}

\* C32: the size of a JoinedMap is the number of entries of all its sources
\* together, a key held by several sources counted once per source, so it is
\* the number of entries the iteration yields plus the number of occluded
\* entries.
C32_SizeIsSumOfSources ==
    /\ JoinedSize(sources) = Cardinality(SourceEntries)
    /\ JoinedSize(sources)
           = Len(JoinedIterate(sources)) + Cardinality(OccludedEntries)

\* two sources hold the same key while the JoinedMap is observed
C32_Witness ==
    /\ jmHandlers # {}
    /\ OccludedEntries # {}
    /\ JoinedSize(sources) > Len(JoinedIterate(sources))

\* the mask has one entry per source element
MaskHasSourceLength == ~flIncluded.null /\ Len(flIncluded.arr) = Len(flSource)

\* every entry of the mask is the predicate's verdict on the element at its index
MaskIsPredicate ==
    /\ ~flIncluded.null
    /\ \A i \in 0..(Len(flSource) - 1) :
           i < Len(flIncluded.arr)
           /\ flIncluded.arr[i + 1] = Filter(flFilter, flSource[i + 1], i)

\* C33: while a FilteredList with a filter is subscribed, after every source
\* add, remove, update, move and reset and after every setFilter the mask has
\* the source's length and mask[i] = predicate(source[i], i) for every index i,
\* also for a predicate that looks at the index.
C33_MaskInvariant ==
    (/\ flFilter # NoFilter
     /\ flHandlers # {}
     /\ flSubscription
     /\ flLast.op \in {"add", "remove", "update", "move", "reset", "setFilter"}) =>
        MaskHasSourceLength /\ MaskIsPredicate

\* the keys of the entries es
KeysOf(es) == {es[i].key : i \in 1..Len(es)}

C35_SubscriptionBalance ==
    /\ Cardinality(uvOnValue) <= 1
    /\ (uvLast.op = "mount" /\ uvLast.parent) => uvOnValue = uvLast.before
    /\ uvLast.op = "unmount" => uvOnValue = {}
    /\ (uvLast.op = "unmount" /\ ~uvLast.wasBound) =>
           (uvLast.offCalls = 0 /\ uvOnValue = uvLast.before)

\* the array is sorted per the comparator c: no element sorts after a later one
SortedPer(c, a) ==
    \A i \in 1..Len(a) : \A j \in (i + 1)..Len(a) : ~Cmp(c, a[i], a[j]).gt

\* a call has returned
SiReturned == siPc = "done" /\ siHigh = 0 /\ siLow = 0

\* the index returned is within the array and, for an array sorted per an
\* ordering, splits it into elements that do not sort after the value and
\* elements that do not sort before it
SiResultSplits ==
    SiReturned =>
        /\ siResult \in 0..Len(siArray)
        /\ (siCmp \in SiOrderings /\ SortedPer(siCmp, siArray)) =>
               /\ \A i \in 1..siResult : ~Cmp(siCmp, siArray[i], siValue).gt
               /\ \A i \in (siResult + 1)..Len(siArray) :
                      ~Cmp(siCmp, siArray[i], siValue).lt

\* C36: sortedIndex terminates for every array and every comparator, and
\* returns an index r with 0 <= r <= array.length such that, the array being
\* sorted per the comparator, every element before r compares less than or
\* equal to the value and every element from r on greater than or equal to it.
C36_SortedIndexTerminates ==
    /\ [](SiResultSplits)
    /\ (siPc = "loop") ~> (siPc = "done")

\* a call on a sorted array of three elements has returned an index inside it
C36_Witness ==
    /\ SiReturned
    /\ siCmp = "descending"
    /\ Len(siArray) = 3
    /\ SortedPer(siCmp, siArray)
    /\ siArray[1] # siArray[3]
    /\ siResult \in 1..2

=============================================================================
